---- MODULE Spec2Model ----
(***************************************************************************)
(* A model of violetear's style engine: selectors (selector.py), styles    *)
(* (style.py), animations (animation.py), media queries (media.py) and the *)
(* style sheet that collects them.                                         *)
(*                                                                         *)
(* Text is modelled at two levels.  A selector string is a sequence of     *)
(* one-character strings, so that Selector.parse can look at every         *)
(* character; rendered CSS is a TLA+ string built with \o.                 *)
(* Python's None is the empty sequence for an optional string, a sequence  *)
(* of length 0 or 1 for an optional object, and 0 for an optional width or *)
(* an optional reference into a list.                                      *)
(***************************************************************************)
EXTENDS Integers, Sequences, FiniteSets, TLC

VARIABLES
    styles,         \* the Style objects ever created, by identity (index)
    animations,     \* the Animation objects ever created, by identity
    counter,        \* Animation.__counter, one per process
    sheet_styles,   \* StyleSheet.styles: identities of the unscoped styles
    medias,         \* StyleSheet.medias: the MediaQuery objects, in creation order
    _media,         \* StyleSheet._media: index of the active MediaQuery, 0 for None
    withStack,      \* the `with` blocks the script is inside, innermost last
    last,           \* the last call made and what it returned
    nops,           \* number of calls made so far
    selIn,          \* selector scenario: the Selector under test
    selOut,         \* selector scenario: outcome of the last Selector call
    script,         \* replay scenario: the builder calls of the script
    run,            \* replay scenario: which execution of the script is running
    pos,            \* replay scenario: next call of the script to replay
    out1,           \* replay scenario: render() output of the first execution
    selectors,      \* object scenario: the Selector objects ever created, by identity
    dicts,          \* object scenario: the dict objects ever created, by identity
    input,          \* function scenario: the arguments of the call under test
    output          \* function scenario: what the call returned or raised

vars == <<styles, animations, counter, sheet_styles, medias, _media, withStack,
          last, nops, selIn, selOut, script, run, pos, out1,
          selectors, dicts, input, output>>

sheetVars == <<styles, animations, counter, sheet_styles, medias, _media,
               withStack, last, nops>>
selVars == <<selIn, selOut>>
detVars == <<script, run, pos, out1>>
objVars == <<selectors, dicts>>
funVars == <<input, output>>

(***************************************************************************)
(* Bounds of the model.                                                    *)
(***************************************************************************)
MaxStyles == 4
MaxOps == 5
MaxStyleOps == 2
MaxMedias == 2
MaxAnimations == 2
MaxSelParts == 2
MaxScript == 3
MaxOthers == 2

(***************************************************************************)
(* Generic helpers on sequences and ordered dictionaries.  A Python dict   *)
(* is a sequence of <<key, value>> pairs in insertion order.               *)
(***************************************************************************)
Range(s) == {s[i] : i \in 1..Len(s)}

Keys(d) == [i \in 1..Len(d) |-> d[i][1]]

HasKey(d, k) == \E i \in 1..Len(d) : d[i][1] = k

DictGet(d, k) == d[CHOOSE i \in 1..Len(d) : d[i][1] = k][2]

\* d[k] = v: an existing key keeps its place, a new key goes last.
DictSet(d, k, v) ==
    IF HasKey(d, k)
    THEN [i \in 1..Len(d) |-> IF d[i][1] = k THEN <<k, v>> ELSE d[i]]
    ELSE Append(d, <<k, v>>)

RECURSIVE Join(_)
Join(s) == IF s = <<>> THEN "" ELSE Head(s) \o Join(Tail(s))

RECURSIVE JoinWith(_, _)
JoinWith(s, sep) ==
    IF s = <<>> THEN ""
    ELSE IF Len(s) = 1 THEN s[1]
    ELSE s[1] \o sep \o JoinWith(Tail(s), sep)

RECURSIVE Flatten(_)
Flatten(ss) == IF ss = <<>> THEN <<>> ELSE Head(ss) \o Flatten(Tail(ss))

(***************************************************************************)
(* selector.py: the token grammar.                                         *)
(***************************************************************************)
Lower == {"a","b","c","d","e","f","g","h","i","j","k","l","m",
          "n","o","p","q","r","s","t","u","v","w","x","y","z"}
Upper == {"A","B","C","D","E","F","G","H","I","J","K","L","M",
          "N","O","P","Q","R","S","T","U","V","W","X","Y","Z"}
Digit == {"0","1","2","3","4","5","6","7","8","9"}

\* TOKEN_PART = [a-zA-Z0-9]+ : one character of it
TOKEN_PART == Lower \cup Upper \cup Digit

\* End (exclusive) of the run of TOKEN_PART characters of s starting at i.
RECURSIVE PartEnd(_, _)
PartEnd(s, i) ==
    IF i <= Len(s) /\ s[i] \in TOKEN_PART THEN PartEnd(s, i + 1) ELSE i

\* x when it is a position, y otherwise
OrElse(x, y) == IF x > 0 THEN x ELSE y

\* TOKEN = (TOKEN_PART\-)*TOKEN_PART matched greedily at i: the end (exclusive)
\* of the longest match, 0 when there is none.  What may follow a token in
\* SELECTOR is never a token character, so only the longest match can be part
\* of a full match.
RECURSIVE TOKEN(_, _)
TokenFrom(s, i, e) ==
    IF e = i THEN 0
    ELSE IF e <= Len(s) /\ s[e] = "-" THEN OrElse(TOKEN(s, e + 1), e)
    ELSE e

TOKEN(s, i) == TokenFrom(s, i, PartEnd(s, i))

\* (c TOKEN)* at i, for CLASSES (c = ".") and STATE (c = ":"): end of the match.
RECURSIVE Prefixed(_, _, _)
PrefixedFrom(s, i, c, e) == IF e > 0 THEN Prefixed(s, e, c) ELSE i

Prefixed(s, i, c) ==
    IF i <= Len(s) /\ s[i] = c THEN PrefixedFrom(s, i, c, TOKEN(s, i + 1)) ELSE i

\* One ATTRIBUTE = \[TOKEN=TOKEN\] at i: its end, 0 when there is none.
Followed(s, e, c) == e > 0 /\ e <= Len(s) /\ s[e] = c

AttrValue(s, v) == IF Followed(s, v, "]") THEN v + 1 ELSE 0

AttrKey(s, k) == IF Followed(s, k, "=") THEN AttrValue(s, TOKEN(s, k + 1)) ELSE 0

ATTRIBUTE(s, i) ==
    IF i <= Len(s) /\ s[i] = "[" THEN AttrKey(s, TOKEN(s, i + 1)) ELSE 0

RECURSIVE Attributes(_, _)
AttributesFrom(s, i, e) == IF e > 0 THEN Attributes(s, e) ELSE i

Attributes(s, i) == AttributesFrom(s, i, ATTRIBUTE(s, i))

Slice(s, from, to) == SubSeq(s, from, to - 1)

\* re.match in place of re.fullmatch: a match of a prefix is a match
GroupsOfPrefix(s, p1, p2, p3, p4, p5) ==
    [ match   |-> TRUE,
      tag     |-> Slice(s, 1, p1),
      id      |-> Slice(s, p1, p2),
      classes |-> Slice(s, p2, p3),
      states  |-> Slice(s, p3, p4),
      attrs   |-> Slice(s, p4, p5) ]

\* re.fullmatch(SELECTOR, s): whether it matches, and the five named groups,
\* from the positions p1..p5 where the groups end.
Groups(s, p1, p2, p3, p4, p5) ==
    [ match   |-> p5 = Len(s) + 1,
      tag     |-> Slice(s, 1, p1),
      id      |-> Slice(s, p1, p2),
      classes |-> Slice(s, p2, p3),
      states  |-> Slice(s, p3, p4),
      attrs   |-> Slice(s, p4, p5) ]

AfterStates(s, p1, p2, p3, p4) == Groups(s, p1, p2, p3, p4, Attributes(s, p4))

AfterClasses(s, p1, p2, p3) == AfterStates(s, p1, p2, p3, Prefixed(s, p3, ":"))

AfterId(s, p1, p2) == AfterClasses(s, p1, p2, Prefixed(s, p2, "."))

AfterTag(s, p1) ==
    AfterId(s, p1, IF p1 <= Len(s) /\ s[p1] = "#"
                   THEN OrElse(TOKEN(s, p1 + 1), p1) ELSE p1)

SELECTOR(s) == AfterTag(s, OrElse(TOKEN(s, 1), 1))

(***************************************************************************)
(* selector.py: the Selector class.  A Selector is a record; its parent is *)
(* a sequence holding no or one Selector.                                  *)
(***************************************************************************)
\* Selector.__init__: classes and states become tuples, attrs a dict.
Selector(tag, id, classes, states, parent, attrs) ==
    [ _tag |-> tag, _id |-> id, _classes |-> classes, _states |-> states,
      _attrs |-> attrs, _parent |-> parent ]

\* dict(**attrs): the keyword arguments in order, a repeated key keeping its
\* first place and its last value.
RECURSIVE MakeDict(_, _)
MakeDict(pairs, acc) ==
    IF pairs = <<>> THEN acc
    ELSE MakeDict(Tail(pairs), DictSet(acc, Head(pairs)[1], Head(pairs)[2]))

\* Selector.css
RECURSIVE SelectorCss(_)
SelectorCss(sel) ==
    LET parent  == IF sel._parent /= <<>>
                   THEN SelectorCss(sel._parent[1]) \o <<">">> ELSE <<>>
        tag     == IF sel._tag /= <<>> THEN sel._tag ELSE <<>>
        id      == IF sel._id /= <<>> THEN <<"#">> \o sel._id ELSE <<>>
        classes == Flatten([i \in 1..Len(sel._classes) |-> <<".">> \o sel._classes[i]])
        states  == Flatten([i \in 1..Len(sel._states) |-> <<":">> \o sel._states[i]])
        attrs   == Flatten([i \in 1..Len(sel._attrs) |->
                       <<"[">> \o sel._attrs[i][1] \o <<"=">> \o sel._attrs[i][2] \o <<"]">>])
    IN  parent \o tag \o id \o classes \o states \o attrs

\* str.split(sep) for a one-character separator.
RECURSIVE Split(_, _)
Split(s, sep) ==
    IF \E i \in 1..Len(s) : s[i] = sep
    THEN LET i == CHOOSE j \in 1..Len(s) :
                      s[j] = sep /\ \A k \in 1..(j - 1) : s[k] /= sep
         IN  <<SubSeq(s, 1, i - 1)>> \o Split(SubSeq(s, i + 1, Len(s)), sep)
    ELSE <<s>>

\* str.split("][")
RECURSIVE SplitBrackets(_)
SplitBrackets(s) ==
    IF \E i \in 1..(Len(s) - 1) : s[i] = "]" /\ s[i + 1] = "["
    THEN LET i == CHOOSE j \in 1..(Len(s) - 1) :
                      /\ s[j] = "]" /\ s[j + 1] = "["
                      /\ \A k \in 1..(j - 1) : ~(s[k] = "]" /\ s[k + 1] = "[")
         IN  <<SubSeq(s, 1, i - 1)>> \o SplitBrackets(SubSeq(s, i + 2, Len(s)))
    ELSE <<s>>

RECURSIVE LStrip(_, _)
LStrip(s, c) == IF s /= <<>> /\ Head(s) = c THEN LStrip(Tail(s), c) ELSE s

RECURSIVE RStrip(_, _)
RStrip(s, c) ==
    IF s /= <<>> /\ s[Len(s)] = c THEN RStrip(SubSeq(s, 1, Len(s) - 1), c) ELSE s

\* One "[key=value" / "key=value]" part, split at "=" and stripped
AttrPair(kv) == <<LStrip(kv[1], "["), RStrip(kv[2], "]")>>

AttrPairs(attr_parts) ==
    [i \in 1..Len(attr_parts) |-> AttrPair(Split(attr_parts[i], "="))]

\* The attrs group of a match, as the dict Selector.parse builds from it.
ParseAttrs(attrs_match) ==
    IF attrs_match = <<>> THEN <<>>
    ELSE MakeDict(AttrPairs(SplitBrackets(attrs_match)), <<>>)

\* A parse that keeps the "#" of the id group
FromMatchKeepsHash(match, parent) ==
    IF ~match.match THEN [ok |-> FALSE, sel |-> <<>>]
    ELSE [ok |-> TRUE,
          sel |-> << Selector(
              match.tag,
              match.id,
              IF match.classes /= <<>> THEN Tail(Split(match.classes, ".")) ELSE <<>>,
              IF match.states /= <<>> THEN Tail(Split(match.states, ":")) ELSE <<>>,
              parent,
              ParseAttrs(match.attrs)) >>]

\* Selector.parse after re.fullmatch: ok is FALSE when it raises
\* ValueError("Invalid CSS selector"), and then there is no Selector.
FromMatch(match, parent) ==
    IF ~match.match THEN [ok |-> FALSE, sel |-> <<>>]
    ELSE [ok |-> TRUE,
          sel |-> << Selector(
              match.tag,
              IF match.id /= <<>> THEN Tail(match.id) ELSE <<>>,
              IF match.classes /= <<>> THEN Tail(Split(match.classes, ".")) ELSE <<>>,
              IF match.states /= <<>> THEN Tail(Split(match.states, ":")) ELSE <<>>,
              parent,
              ParseAttrs(match.attrs)) >>]

\* Selector.parse(selector, parent=parent)
Parse(selector, parent) == FromMatch(SELECTOR(selector), parent)

\* Selector.on(*states, **attrs)
SelectorOn(self, states, attrs) ==
    Selector(self._tag, self._id, self._classes, self._states \o states,
             self._parent, MakeDict(self._attrs \o attrs, <<>>))

\* str(n) for the small naturals the model uses
Str(n) == IF n < 10 THEN <<ToString(n)>>
          ELSE <<ToString(n \div 10), ToString(n % 10)>>

NthChild(nth) ==
    <<"n","t","h","-","c","h","i","l","d","(">> \o Str(nth) \o <<")">>

\* Selector.children after the parse; nth = 0 stands for None.
WithNth(s, nth) ==
    IF s.ok /\ nth /= 0
    THEN [ok |-> TRUE, sel |-> <<SelectorOn(s.sel[1], <<NthChild(nth)>>, <<>>)>>]
    ELSE s

\* Selector.children(selector, nth=nth)
SelectorChildren(self, selector, nth) == WithNth(Parse(selector, <<self>>), nth)

(***************************************************************************)
(* Python floats.  A float is an IEEE 754 double; the model computes with  *)
(* the doubles that are not negative.  A double is a record                *)
(* [bits, exp]: bits is its significand in binary, most significant bit    *)
(* first, at most Precision bits with no zero at either end, and exp the   *)
(* weight of the last bit, so that the value is bits * 2^exp; zero has no  *)
(* bits.  Two doubles are equal exactly when their records are equal.      *)
(***************************************************************************)
Precision == 53

Pow2(n) == 2 ^ n

\* The number of bits of the natural n (below 2^30)
Width(n) == CHOOSE w \in 0..30 : n < Pow2(w) /\ (w = 0 \/ n >= Pow2(w - 1))

\* The natural n in binary
BitsOfWidth(n, w) == [i \in 1..w |-> (n \div Pow2(w - i)) % 2]

ToBits(n) == BitsOfWidth(n, Width(n))

RECURSIVE FromBits(_)
\* The natural that bits spell (below 2^30)
FromBits(bits) ==
    IF bits = <<>> THEN 0
    ELSE IF Len(bits) = 1 THEN bits[1]
    ELSE FromBits(SubSeq(bits, 1, Len(bits) \div 2)) * Pow2(Len(bits) - Len(bits) \div 2)
         + FromBits(SubSeq(bits, Len(bits) \div 2 + 1, Len(bits)))

Zeros(n) == [i \in 1..n |-> 0]

\* The places of bits that hold a one
Ones(bits) == {i \in 1..Len(bits) : bits[i] = 1}

FirstOne(bits) == CHOOSE i \in Ones(bits) : \A j \in 1..(i - 1) : bits[j] = 0

LastOne(bits) == CHOOSE i \in Ones(bits) : \A j \in (i + 1)..Len(bits) : bits[j] = 0

StripLeft(bits) ==
    IF Ones(bits) = {} THEN <<>> ELSE SubSeq(bits, FirstOne(bits), Len(bits))

\* The record of bits * 2^exp, for bits without leading zeros
Normal(bits, exp) ==
    IF Ones(bits) = {} THEN [bits |-> <<>>, exp |-> 0]
    ELSE [bits |-> SubSeq(bits, 1, LastOne(bits)),
          exp  |-> exp + Len(bits) - LastOne(bits)]

\* The carry into place i of a + b + carry, for two bit sequences of the
\* same length: the nearest place below i where a and b agree makes it, and
\* carry does when there is none.
HasEqualBelow(a, b, i) == \E j \in (i + 1)..Len(a) : a[j] = b[j]

EqualBelow(a, b, i) ==
    CHOOSE j \in (i + 1)..Len(a) :
        a[j] = b[j] /\ \A k \in (i + 1)..(j - 1) : a[k] /= b[k]

CarryInto(a, b, carry, i) ==
    IF HasEqualBelow(a, b, i) THEN a[EqualBelow(a, b, i)] ELSE carry

\* a + b + carry for two bit sequences of the same length, one bit longer
AddBits(a, b, carry) ==
    [i \in 1..(Len(a) + 1) |->
        IF i = 1 THEN CarryInto(a, b, carry, 0)
        ELSE (a[i - 1] + b[i - 1] + CarryInto(a, b, carry, i - 1)) % 2]

\* a + b for two bit sequences: the shorter one is padded on the left
PadLeft(a, n) == Zeros(n - Len(a)) \o a

Longer(a, b) == IF Len(a) >= Len(b) THEN Len(a) ELSE Len(b)

SumBits(a, b) ==
    StripLeft(AddBits(PadLeft(a, Longer(a, b)), PadLeft(b, Longer(a, b)), 0))

\* Round to nearest, ties to even: bits (leading 1) * 2^exp, where sticky
\* says that the exact value has more below the last bit.
RoundUp(bits, sticky) ==
    /\ bits[Precision + 1] = 1
    /\ \/ sticky
       \/ \E i \in (Precision + 2)..Len(bits) : bits[i] = 1
       \/ bits[Precision] = 1

Rounded(bits, exp, sticky) ==
    IF Len(bits) <= Precision THEN Normal(bits, exp)
    ELSE Normal(IF RoundUp(bits, sticky)
                THEN SumBits(SubSeq(bits, 1, Precision), <<1>>)
                ELSE SubSeq(bits, 1, Precision),
                exp + Len(bits) - Precision)

\* float(n) for a natural n
FromInt(n) == Normal(ToBits(n), 0)

Square(x) == x * x

RECURSIVE Pow2Mod(_, _)
\* 2^i modulo n
Pow2Mod(i, n) ==
    IF i = 0 THEN 1 % n
    ELSE (Square(Pow2Mod(i \div 2, n)) * (IF i % 2 = 1 THEN 2 ELSE 1)) % n

\* What is left of r / n after i binary places, and the i-th place
Remainder(r, n, i) == (r * Pow2Mod(i, n)) % n

FracBit(r, n, i) == (2 * Remainder(r, n, i - 1)) \div n

\* The first binary place of r / n that is a one, for 0 < r < n
FirstPlace(r, n) ==
    CHOOSE f \in 1..31 : FracBit(r, n, f) = 1 /\ \A g \in 1..(f - 1) : FracBit(r, n, g) = 0

\* whole + r / n rounded, from its first places binary places
DivBits(whole, r, n, places) ==
    Rounded(StripLeft(whole \o [i \in 1..places |-> FracBit(r, n, i)]),
            -places, Remainder(r, n, places) /= 0)

\* How many binary places give two bits more than a double holds
Places(whole, r, n) ==
    IF whole = <<>> THEN FirstPlace(r, n) + Precision + 1
    ELSE Precision + 2 - Len(whole)

\* a / n for naturals a and n > 0, correctly rounded
FloatDiv(a, n) ==
    IF a % n = 0 THEN FromInt(a \div n)
    ELSE DivBits(ToBits(a \div n), a % n, n, Places(ToBits(a \div n), a % n, n))

\* x + y for two doubles
Shifted(x, e) == x.bits \o Zeros(x.exp - e)

Lower2(a, b) == IF a <= b THEN a ELSE b

FloatAddAt(x, y, e) == Rounded(SumBits(Shifted(x, e), Shifted(y, e)), e, FALSE)

FloatAdd(x, y) ==
    IF x.bits = <<>> THEN y
    ELSE IF y.bits = <<>> THEN x
    ELSE FloatAddAt(x, y, Lower2(x.exp, y.exp))

\* The j-th group of 16 bits of bits, counted from the last bit, as a natural
Chunk(bits, j) ==
    FromBits(SubSeq(bits, IF Len(bits) - 16 * j > 15 THEN Len(bits) - 16 * j - 15 ELSE 1,
                    Len(bits) - 16 * j))

ChunkTimes(bits, k, j) == ToBits(Chunk(bits, j) * k) \o Zeros(16 * j)

\* bits * k, exactly, for at most 64 bits and k below 2^14
MulBits(bits, k) ==
    SumBits(SumBits(ChunkTimes(bits, k, 0), ChunkTimes(bits, k, 1)),
            SumBits(ChunkTimes(bits, k, 2), ChunkTimes(bits, k, 3)))

\* x * k for a double x and a natural k
FloatMul(x, k) == Rounded(MulBits(x.bits, k), x.exp, FALSE)

\* The bits of bits * 2^exp above the binary point, and those below it
Whole(bits, exp) ==
    IF exp >= 0 THEN bits \o Zeros(exp)
    ELSE IF Len(bits) + exp > 0 THEN SubSeq(bits, 1, Len(bits) + exp)
    ELSE <<>>

Fraction(bits, exp) ==
    IF exp >= 0 THEN <<>>
    ELSE IF Len(bits) + exp >= 0 THEN SubSeq(bits, Len(bits) + exp + 1, Len(bits))
    ELSE PadLeft(bits, -exp)

\* math.trunc(x), int(x)
Trunc(x) == FromBits(Whole(x.bits, x.exp))

\* whole and a fraction, rounded to the nearest natural, a tie to the even one
NearestOf(whole, frac) ==
    IF /\ frac /= <<>>
       /\ frac[1] = 1
       /\ (whole % 2 = 1 \/ \E i \in 2..Len(frac) : frac[i] = 1)
    THEN whole + 1 ELSE whole

Nearest(bits, exp) == NearestOf(FromBits(Whole(bits, exp)), Fraction(bits, exp))

Pow10(n) == 10 ^ n

\* round(x, ndigits) for a double x: the decimal with ndigits digits
\* nearest to x, and the double nearest to that
FloatRound(x, ndigits) ==
    FloatDiv(Nearest(MulBits(x.bits, Pow10(ndigits)), x.exp), Pow10(ndigits))

\* repr(x): the shortest decimal that reads back as x, for the doubles that
\* have one of at most ReprDigits decimals, the most that a constructor of
\* units.py keeps (round(x, 3)).
ReprDigits == 3

Decimals(x) ==
    CHOOSE d \in 0..ReprDigits :
        /\ FloatRound(x, d) = x
        /\ \A c \in 0..(d - 1) : FloatRound(x, c) /= x

RECURSIVE Padded(_, _)
\* n written with d digits
Padded(n, d) == IF d = 0 THEN "" ELSE Padded(n \div 10, d - 1) \o ToString(n % 10)

DecimalText(k, d) ==
    IF d = 0 THEN ToString(k) \o ".0"
    ELSE ToString(k \div Pow10(d)) \o "." \o Padded(k % Pow10(d), d)

ReprAt(x, d) == DecimalText(Nearest(MulBits(x.bits, Pow10(d)), x.exp), d)

Repr(x) == ReprAt(x, Decimals(x))

(***************************************************************************)
(* units.py: Unit and its constructors.  A Python value is tagged with its *)
(* type: None, a bool, an int, a float (a double), a str, or a Unit, whose *)
(* value is an int or a float.                                             *)
(***************************************************************************)
None == [type |-> "None", value |-> 0, unit |-> ""]
BoolValue(b) == [type |-> "bool", value |-> b, unit |-> ""]
StrValue(s) == [type |-> "str", value |-> s, unit |-> ""]
IntValue(n) == [type |-> "int", value |-> n, unit |-> ""]
FloatValue(x) == [type |-> "float", value |-> x, unit |-> ""]
Unit(value, unit) == [type |-> "Unit", value |-> value, unit |-> unit]

\* isinstance(x, int): bool is a subclass of int
IsInt(x) == x.type \in {"int", "bool"}

IsFloat(x) == x.type = "float"

\* int(x) for a number x
PyInt(x) ==
    CASE x.type = "int"   -> x.value
      [] x.type = "bool"  -> (IF x.value THEN 1 ELSE 0)
      [] x.type = "float" -> Trunc(x.value)

\* float(x) for a number x
PyFloat(x) == IF IsFloat(x) THEN x.value ELSE FromInt(PyInt(x))

\* round(x, ndigits) for a number x: an int stays the int it is
PyRound(x, ndigits) ==
    IF IsFloat(x) THEN FloatValue(FloatRound(x.value, ndigits)) ELSE IntValue(PyInt(x))

\* px(x) = Unit(int(x), "px")
px(x) == Unit(IntValue(PyInt(x)), "px")

\* rem(x) = Unit(round(x, 3), "rem")
rem(x) == Unit(PyRound(x, 3), "rem")

\* fr(x) = Unit(round(x, 2), "fr")
fr(x) == Unit(PyRound(x, 2), "fr")

\* pc(x) = Unit(math.trunc(x * 10000) / 100, "%")
pc(x) == Unit(FloatValue(FloatDiv(Trunc(FloatMul(PyFloat(x), 10000)), 100)), "%")

\* sec(x) = Unit(round(x, 2), "s")
sec(x) == Unit(PyRound(x, 2), "s")

\* ms(x) = Unit(int(x), "ms")
ms(x) == Unit(IntValue(PyInt(x)), "ms")

\* str(x) for a number
NumStr(x) ==
    CASE x.type = "int"   -> ToString(x.value)
      [] x.type = "bool"  -> (IF x.value THEN "True" ELSE "False")
      [] x.type = "float" -> Repr(x.value)

\* str(value): Unit.__str__ for a Unit
PyStr(v) ==
    CASE v.type = "str"  -> v.value
      [] v.type = "None" -> "None"
      [] v.type = "Unit" -> NumStr(v.value) \o v.unit
      [] OTHER           -> NumStr(v)

(***************************************************************************)
(* style.py: the Style class.  The heap h is the sequence of all Style     *)
(* objects; a Style is known by its index in it.  Each method is a         *)
(* function from the heap to the heap after the call.                      *)
(***************************************************************************)
\* Style.__init__(selector): selector is <<>> (None) or <<Selector>>.
Style(selector) ==
    [ selector |-> selector, _rules |-> <<>>, _children |-> <<>>,
      _transitions |-> <<>>, _transforms |-> <<>>,
      _animations |-> {}, _animation_configs |-> <<>> ]

\* A rule() that moves an overwritten attribute to the end
StyleRuleMoves(h, self, attr, value) ==
    [h EXCEPT ![self]._rules =
        Append(SelectSeq(@, LAMBDA kv : kv[1] /= attr), <<attr, PyStr(value)>>)]

\* Style.rule(attr, value)
StyleRule(h, self, attr, value) ==
    [h EXCEPT ![self]._rules = DictSet(@, attr, PyStr(value))]

\* Style.apply(*others)
RECURSIVE CopyRules(_, _, _)
CopyRules(h, self, items) ==
    IF items = <<>> THEN h
    ELSE CopyRules(StyleRule(h, self, Head(items)[1], StrValue(Head(items)[2])),
                   self, Tail(items))

\* An apply() that lets the earlier source win: it copies the sources
\* last to first
RECURSIVE StyleApplyReversed(_, _, _)
StyleApplyReversed(h, self, others) ==
    IF others = <<>> THEN h
    ELSE StyleApplyReversed(CopyRules(h, self, h[others[Len(others)]]._rules),
                            self, SubSeq(others, 1, Len(others) - 1))

RECURSIVE StyleApply(_, _, _)
StyleApply(h, self, others) ==
    IF others = <<>> THEN h
    ELSE StyleApply(CopyRules(h, self, h[Head(others)]._rules), self, Tail(others))

\* A sub-style lookup that puts a new sub-style first in _children
SubStyleAtFront(h, self, selector, key) ==
    IF HasKey(h[self]._children, key)
    THEN [ h |-> h, ret |-> DictGet(h[self]._children, key) ]
    ELSE [ h   |-> [Append(h, Style(<<selector>>)) EXCEPT ![self]._children =
                        <<<<key, Len(h) + 1>>>> \o @],
           ret |-> Len(h) + 1 ]

\* A sub-style lookup that makes a new sub-style on every call
SubStyleAtAlwaysNew(h, self, selector, key) ==
    [ h   |-> [Append(h, Style(<<selector>>)) EXCEPT ![self]._children =
                  DictSet(@, key, Len(h) + 1)],
      ret |-> Len(h) + 1 ]

\* The body shared by Style.on and Style.children: look the derived selector
\* up in _children under key, creating the sub-style when it is not there.
SubStyleAt(h, self, selector, key) ==
    IF HasKey(h[self]._children, key)
    THEN [ h   |-> [h EXCEPT ![self]._children =
                        DictSet(@, key, DictGet(h[self]._children, key))],
           ret |-> DictGet(h[self]._children, key) ]
    ELSE [ h   |-> [Append(h, Style(<<selector>>)) EXCEPT ![self]._children =
                        DictSet(@, key, Len(h) + 1)],
           ret |-> Len(h) + 1 ]

SubStyle(h, self, selector) == SubStyleAt(h, self, selector, SelectorCss(selector))

\* Style.on(state)
StyleOn(h, self, state) ==
    SubStyle(h, self, SelectorOn(h[self].selector[1], <<state>>, <<>>))

\* Style.children(selector, nth=nth), for a selector string that parses
StyleChildren(h, self, selector, nth) ==
    SubStyle(h, self, SelectorChildren(h[self].selector[1], selector, nth).sel[1])

\* One column of _animation_configs, joined with ", "
Column(configs, k) == JoinWith([i \in 1..Len(configs) |-> configs[i][k]], ", ")

AnimationRules(h, self, configs) ==
    StyleRule(StyleRule(StyleRule(StyleRule(StyleRule(h,
        self, "animation-name", StrValue(Column(configs, 1))),
        self, "animation-duration", StrValue(Column(configs, 2))),
        self, "animation-timing-function", StrValue(Column(configs, 3))),
        self, "animation-iteration-count", StrValue(Column(configs, 4))),
        self, "animation-direction", StrValue(Column(configs, 5)))

\* Style.animate(animation, duration): name is animation.name; timing, iter
\* and direction keep their defaults.  A config holds the strings the rules
\* are joined from.
StyleAnimate(h, self, animation, name, duration) ==
    AnimationRules(
        [h EXCEPT ![self]._animation_configs =
                      Append(@, <<name, PyStr(duration), "linear", ToString(1), "normal">>),
                  ![self]._animations = @ \cup {animation}],
        self,
        Append(h[self]._animation_configs,
               <<name, PyStr(duration), "linear", ToString(1), "normal">>))

\* textwrap.indent(text, 4 * " ") for the lines of text
Indent(lines) == [i \in 1..Len(lines) |-> "    " \o lines[i]]

\* The declarations of Style.css, one per rule, in the order of the dict.
Declarations(st) ==
    [i \in 1..Len(st._rules) |-> st._rules[i][1] \o ": " \o st._rules[i][2] \o ";"]

\* Style.css(inline=False)
StyleCss(st) ==
    LET selector == IF st.selector /= <<>> THEN Join(SelectorCss(st.selector[1])) ELSE ""
    IN  selector \o " {\n" \o JoinWith(Indent(Declarations(st)), "\n") \o "\n}"

(***************************************************************************)
(* animation.py: Animation.__init__.  name is <<>> for None.               *)
(***************************************************************************)
AnimationName(name, cnt) == IF name = <<>> THEN "_a" \o ToString(cnt) ELSE name[1]

\* An Animation.__init__ that leaves the counter alone
AnimationCounterKept(name, cnt) == cnt

AnimationCounter(name, cnt) == IF name = <<>> THEN cnt + 1 ELSE cnt

(***************************************************************************)
(* media.py: the MediaQuery class.  A MediaQuery is known by its index in  *)
(* StyleSheet.medias; a width of 0 stands for None.                        *)
(***************************************************************************)
\* MediaQuery.__init__
MediaQuery(min_width, max_width) ==
    [min_width |-> min_width, max_width |-> max_width, styles |-> <<>>]

\* MediaQuery.add that forgets the style
MediaAddDropped(qs, self, style) == qs

\* MediaQuery.add(style)
MediaAdd(qs, self, style) == [qs EXCEPT ![self].styles = Append(@, style)]

\* MediaQuery.css
MediaCss(m) ==
    LET lo == IF m.min_width /= 0
              THEN <<"(min-width: " \o ToString(m.min_width) \o "px)">> ELSE <<>>
        hi == IF m.max_width /= 0
              THEN <<"(max-width: " \o ToString(m.max_width) \o "px)">> ELSE <<>>
    IN  "\n@media " \o JoinWith(lo \o hi, " and ")

\* MediaQuery.__enter__: the new value of sheet._media
MediaEnter(self, active) == self

\* An __exit__ that resets the scope only when the block ends normally
MediaExitNormalOnly(self, exc) == IF exc THEN self ELSE 0

\* MediaQuery.__exit__(*args): the new value of sheet._media.  exc tells
\* whether the block is left by an exception; __exit__ does not look at it.
MediaExit(self, exc) == 0

(***************************************************************************)
(* The StyleSheet class: select, add, media, redefine and render.          *)
(***************************************************************************)
\* The collection a new style goes to: the active media query's styles, or
\* the sheet's own.
Target == IF _media = 0 THEN sheet_styles ELSE medias[_media].styles

\* The first of the positions hits of coll, 0 when there is none
FirstOf(coll, hits) ==
    IF hits = {} THEN 0 ELSE coll[CHOOSE i \in hits : \A j \in hits : i <= j]

\* The first style of a collection whose selector serializes to key
Selected(coll, key) ==
    FirstOf(coll, {i \in 1..Len(coll) : SelectorCss(styles[coll[i]].selector[1]) = key})

\* One call was made: count it and remember it.
Called(rec) ==
    /\ nops' = nops + 1
    /\ last' = rec

Call(op, self, arg, ok, ret) ==
    Called([op |-> op, self |-> self, arg |-> arg, ok |-> ok, ret |-> ret])

\* StyleSheet.add(style), for a style that is already on the heap
SheetAdd(style) ==
    IF _media = 0
    THEN /\ sheet_styles' = Append(sheet_styles, style)
         /\ medias' = medias
    ELSE /\ medias' = MediaAdd(medias, _media, style)
         /\ sheet_styles' = sheet_styles

\* A select that makes a new style on every call
SelectStyleAlwaysNew(selector, p, old) ==
    /\ Len(styles) < MaxStyles
    /\ styles' = Append(styles, Style(p.sel))
    /\ SheetAdd(Len(styles) + 1)
    /\ Call("select", 0, selector, TRUE, Len(styles) + 1)
    /\ UNCHANGED <<_media, withStack>>

\* StyleSheet.select(selector), once the selector is parsed (p) and looked
\* up in the target collection (old, 0 when it is not there)
SelectStyle(selector, p, old) ==
    IF old /= 0
    THEN /\ Call("select", 0, selector, TRUE, old)
         /\ UNCHANGED <<styles, sheet_styles, medias, _media, withStack>>
    ELSE /\ Len(styles) < MaxStyles
         /\ styles' = Append(styles, Style(p.sel))
         /\ SheetAdd(Len(styles) + 1)
         /\ Call("select", 0, selector, TRUE, Len(styles) + 1)
         /\ UNCHANGED <<_media, withStack>>

SelectParsed(selector, p) ==
    IF ~p.ok
    THEN /\ Call("select", 0, selector, FALSE, 0)
         /\ UNCHANGED <<styles, sheet_styles, medias, _media, withStack>>
    ELSE SelectStyle(selector, p, Selected(Target, SelectorCss(p.sel[1])))

\* StyleSheet.select(selector)
Select(selector) == SelectParsed(selector, Parse(selector, <<>>))

\* StyleSheet.redefine(style)
Redefine(style) ==
    IF _media = 0
    THEN /\ Call("redefine", style, <<>>, FALSE, 0)
         /\ UNCHANGED <<styles, sheet_styles, medias, _media, withStack>>
    ELSE /\ Len(styles) < MaxStyles
         /\ styles' = Append(styles, Style(styles[style].selector))
         /\ medias' = MediaAdd(medias, _media, Len(styles) + 1)
         /\ sheet_styles' = sheet_styles
         /\ Call("redefine", style, <<>>, TRUE, Len(styles) + 1)
         /\ UNCHANGED <<_media, withStack>>

\* `with sheet.media(min_width, max_width):` StyleSheet.media makes the
\* MediaQuery and appends it to medias, the with statement enters it.
WithMedia(min_width, max_width) ==
    /\ Len(medias) < MaxMedias
    /\ medias' = Append(medias, MediaQuery(min_width, max_width))
    /\ _media' = MediaEnter(Len(medias) + 1, _media)
    /\ withStack' = Append(withStack, Len(medias) + 1)
    /\ Call("enter", Len(medias) + 1, _media, TRUE, 0)
    /\ UNCHANGED <<styles, sheet_styles>>

\* `with m:` for a MediaQuery m made earlier
WithAgain(m) ==
    /\ medias' = medias
    /\ _media' = MediaEnter(m, _media)
    /\ withStack' = Append(withStack, m)
    /\ Call("enter", m, _media, TRUE, 0)
    /\ UNCHANGED <<styles, sheet_styles>>

\* Leaving the innermost with block, at its end or by an exception raised
\* inside it (exc): Python calls __exit__ on both paths.
Leave(exc) ==
    /\ withStack /= <<>>
    /\ _media' = MediaExit(withStack[Len(withStack)], exc)
    /\ withStack' = SubSeq(withStack, 1, Len(withStack) - 1)
    /\ Call("exit", withStack[Len(withStack)], exc, TRUE, 0)
    /\ UNCHANGED <<styles, sheet_styles, medias>>

\* The styles render emits for a top-level style: the style, then its
\* sub-styles in the order of _children, each with its own, depth first.
RECURSIVE Walk(_, _)
Walk(h, style) ==
    <<style>> \o Flatten([i \in 1..Len(h[style]._children) |->
                             Walk(h, h[style]._children[i][2])])

WalkAll(h, coll) == Flatten([i \in 1..Len(coll) |-> Walk(h, coll[i])])

\* What render emits, in order: <<style, scope>>, scope 0 for no media query.
RenderItems ==
    LET tag(ids, scope) == [i \in 1..Len(ids) |-> <<ids[i], scope>>]
    IN  tag(WalkAll(styles, sheet_styles), 0)
        \o Flatten([m \in 1..Len(medias) |-> tag(WalkAll(styles, medias[m].styles), m)])

Blocks(h, ids) == Join([i \in 1..Len(ids) |-> StyleCss(h[ids[i]]) \o "\n"])

\* StyleSheet.render()
Render ==
    Blocks(styles, WalkAll(styles, sheet_styles))
    \o Join([m \in 1..Len(medias) |->
                MediaCss(medias[m]) \o " {\n"
                \o Blocks(styles, WalkAll(styles, medias[m].styles)) \o "}\n"])

(***************************************************************************)
(* Calls on Style and Animation objects the script holds.                  *)
(***************************************************************************)
sheetFrame == <<sheet_styles, medias, _media, withStack>>

\* style.rule(attr, value)
Rule(self, attr, value) ==
    /\ styles' = StyleRule(styles, self, attr, value)
    /\ Call("rule", self, <<attr, value>>, TRUE, self)
    /\ UNCHANGED sheetFrame

\* style.apply(*others)
Apply(self, others) ==
    /\ styles' = StyleApply(styles, self, others)
    /\ Call("apply", self, others, TRUE, self)
    /\ UNCHANGED sheetFrame

\* A call that returned the sub-style r.ret, leaving the heap r.h
SubStyleCall(op, self, arg, r) ==
    /\ Len(r.h) <= MaxStyles
    /\ styles' = r.h
    /\ Call(op, self, arg, TRUE, r.ret)
    /\ UNCHANGED sheetFrame

\* style.on(state): a style without a selector has no selector.on to call.
On(self, state) ==
    IF styles[self].selector = <<>>
    THEN /\ Call("on", self, state, FALSE, 0)
         /\ UNCHANGED <<styles, sheetFrame>>
    ELSE SubStyleCall("on", self, state, StyleOn(styles, self, state))

\* style.children(selector, nth=nth)
Children(self, selector, nth) ==
    IF styles[self].selector = <<>> \/ ~Parse(selector, <<>>).ok
    THEN /\ Call("children", self, <<selector, nth>>, FALSE, 0)
         /\ UNCHANGED <<styles, sheetFrame>>
    ELSE SubStyleCall("children", self, <<selector, nth>>,
                      StyleChildren(styles, self, selector, nth))

\* Animation(name)
NewAnimation(name) ==
    /\ Len(animations) < MaxAnimations
    /\ animations' = Append(animations, AnimationName(name, counter))
    /\ counter' = AnimationCounter(name, counter)
    /\ Call("Animation", 0, name, TRUE, Len(animations) + 1)
    /\ UNCHANGED <<styles, sheetFrame>>

\* style.animate(animation, duration)
Animate(self, animation, duration) ==
    /\ styles' = StyleAnimate(styles, self, animation, animations[animation], duration)
    /\ Call("animate", self, <<animation, duration>>, TRUE, self)
    /\ UNCHANGED sheetFrame

(***************************************************************************)
(* Inputs of the scenarios.                                                *)
(***************************************************************************)
SelectorStrings == { <<".", "a">>, <<"p">>, <<"*">> }
Attrs == {"color", "width"}
Values == { StrValue("red"), px(IntValue(10)) }
States == { <<"h","o","v","e","r">>, <<"f","o","c","u","s">> }
Widths == {600}

NoCall == [op |-> "", self |-> 0, arg |-> <<>>, ok |-> TRUE, ret |-> 0]

NoSelector == Selector(<<>>, <<>>, <<>>, <<>>, <<>>, <<>>)

InitSheet ==
    /\ styles = <<>>
    /\ animations = <<>>
    /\ counter = 0
    /\ sheet_styles = <<>>
    /\ medias = <<>>
    /\ _media = 0
    /\ withStack = <<>>
    /\ last = NoCall
    /\ nops = 0

InitSel == selIn = NoSelector /\ selOut = [ok |-> TRUE, sel |-> <<>>]

InitDet == script = <<>> /\ run = 1 /\ pos = 1 /\ out1 = ""

InitObj == selectors = <<>> /\ dicts = <<>>

NoOutput == [ok |-> TRUE, ret |-> <<>>]

InitFun == input = <<>> /\ output = NoOutput

(***************************************************************************)
(* Spec: a script building one StyleSheet.                                 *)
(***************************************************************************)
Init == InitSheet /\ InitSel /\ InitDet /\ InitObj /\ InitFun

rest == <<animations, counter, selIn, selOut, script, run, pos, out1,
          selectors, dicts, input, output>>

SheetSelect ==
    /\ nops < MaxOps
    /\ \E s \in SelectorStrings : Select(s) /\ UNCHANGED rest

SheetRule ==
    /\ nops < MaxOps
    /\ \E t \in 1..Len(styles), a \in Attrs, v \in Values :
        Rule(t, a, v) /\ UNCHANGED rest

SheetOn ==
    /\ nops < MaxOps
    /\ \E t \in 1..Len(styles), s \in States : On(t, s) /\ UNCHANGED rest

SheetWithMedia ==
    /\ nops < MaxOps
    /\ \E w \in Widths : WithMedia(0, w) /\ UNCHANGED rest

SheetWithAgain ==
    /\ nops < MaxOps
    /\ \E m \in 1..Len(medias) : WithAgain(m) /\ UNCHANGED rest

SheetLeave ==
    /\ nops < MaxOps
    /\ \E exc \in BOOLEAN : Leave(exc) /\ UNCHANGED rest

SheetRedefine ==
    /\ nops < MaxOps
    /\ \E t \in 1..Len(styles) : Redefine(t) /\ UNCHANGED rest

Next ==
    \/ SheetSelect
    \/ SheetRule
    \/ SheetOn
    \/ SheetWithMedia
    \/ SheetWithAgain
    \/ SheetLeave
    \/ SheetRedefine

Spec == Init /\ [][Next]_vars

(***************************************************************************)
(* SpecStyle: a script working on Style objects of its own.                *)
(***************************************************************************)
ChildSelectors == { <<"p">>, <<"*">> }
Nths == {0, 2}

\* The tuples of 1..MaxOthers different styles among the n first
Others(n) ==
    {o \in UNION {[1..k -> 1..n] : k \in 1..MaxOthers} :
        \A i, j \in 1..Len(o) : i /= j => o[i] /= o[j]}

StyleRuleCall ==
    /\ nops < MaxStyleOps
    /\ \E t \in 1..Len(styles), a \in Attrs, v \in Values :
        Rule(t, a, v) /\ UNCHANGED rest

StyleApplyCall ==
    /\ nops < MaxStyleOps
    /\ \E t \in 1..Len(styles) : \E o \in Others(Len(styles)) :
        Apply(t, o) /\ UNCHANGED rest

StyleOnCall ==
    /\ nops < MaxStyleOps
    /\ \E t \in 1..Len(styles), s \in States : On(t, s) /\ UNCHANGED rest

StyleChildrenCall ==
    /\ nops < MaxStyleOps
    /\ \E t \in 1..Len(styles), s \in ChildSelectors, nth \in Nths :
        Children(t, s, nth) /\ UNCHANGED rest

NextStyle ==
    \/ StyleRuleCall
    \/ StyleApplyCall
    \/ StyleOnCall
    \/ StyleChildrenCall

\* The heaps the script starts from: it has made Style(Selector.parse(".a"))
\* and Style() and given them rules, and it may have made the first one's
\* hover sub-style (first.on("hover")) and given that rules.
InitRules ==
    { <<>>,
      << <<"color", "red">> >>,
      << <<"width", "10px">>, <<"color", "10px">> >> }

WithRules(st, rules) == [st EXCEPT !._rules = rules]

FirstStyle == Style(Parse(<<".", "a">>, <<>>).sel)

InitHeaps ==
    { << WithRules(FirstStyle, ra), WithRules(Style(<<>>), rb) >> :
        ra \in InitRules, rb \in InitRules }
    \cup
    { StyleRule(StyleOn(<< WithRules(FirstStyle, ra), WithRules(Style(<<>>), rb) >>,
                        1, <<"h","o","v","e","r">>).h,
                3, "color", px(IntValue(10))) :
        ra \in InitRules, rb \in InitRules }

InitStyles ==
    /\ styles \in InitHeaps
    /\ animations = <<>>
    /\ counter = 0
    /\ sheet_styles = <<>>
    /\ medias = <<>>
    /\ _media = 0
    /\ withStack = <<>>
    /\ last = NoCall
    /\ nops = 0
    /\ InitSel
    /\ InitDet
    /\ InitObj
    /\ InitFun

SpecStyle == InitStyles /\ [][NextStyle]_vars

(***************************************************************************)
(* SpecSel: Selector.parse applied to the serialization of a Selector      *)
(* built from a tag, an id, classes, states and attributes.                *)
(***************************************************************************)
Tags == { <<>>, <<"p">>, <<"*">> }
Ids == { <<>>, <<"m">> }
ClassNames == { <<"a">>, <<"b", "-", "c">>, <<"x", ".", "y">> }
StateNames == { <<"h","o","v","e","r">>, NthChild(2) }
AttrNames == { <<"k">>, <<"t">> }
AttrValues == { <<"v">>, <<"b", "-", "c">> }

UpTo(S, n) == UNION {[1..k -> S] : k \in 0..n}

\* The keyword arguments **attrs can be: no key twice
AttrDicts ==
    {d \in UpTo(AttrNames \X AttrValues, MaxSelParts) :
        \A i, j \in 1..Len(d) : i /= j => d[i][1] /= d[j][1]}

Selectors ==
    { Selector(tag, id, classes, states, <<>>, attrs) :
        tag \in Tags, id \in Ids, classes \in UpTo(ClassNames, MaxSelParts),
        states \in UpTo(StateNames, MaxSelParts), attrs \in AttrDicts }

InitSelectors ==
    /\ InitSheet
    /\ InitDet
    /\ InitObj
    /\ InitFun
    /\ selIn \in Selectors
    /\ selOut = [ok |-> TRUE, sel |-> <<>>]

\* Selector.parse(selIn.css())
ParseCss ==
    /\ last.op = ""
    /\ selOut' = Parse(SelectorCss(selIn), <<>>)
    /\ last' = [NoCall EXCEPT !.op = "parse"]
    /\ UNCHANGED <<styles, animations, counter, sheet_styles, medias, _media,
                   withStack, nops, selIn, detVars, objVars, funVars>>

NextSel == ParseCss

SpecSel == InitSelectors /\ [][NextSel]_vars

(***************************************************************************)
(* SpecDet: one process executes a script of builder calls, renders the    *)
(* sheet, and executes the same script again on a new StyleSheet.  The     *)
(* second execution makes its objects anew; Animation.__counter belongs to *)
(* the class and lives as long as the process.                             *)
(***************************************************************************)
AnimationNames == { <<>>, <<"fade">> }

BuilderCall(op, self, arg) == [op |-> op, self |-> self, arg |-> arg]

\* What a call of the script does to the sheet and its objects
Effect(c) ==
    CASE c.op = "select"    -> Select(c.arg) /\ UNCHANGED <<animations, counter>>
      [] c.op = "rule"      -> Rule(c.self, c.arg[1], c.arg[2])
                               /\ UNCHANGED <<animations, counter>>
      [] c.op = "on"        -> On(c.self, c.arg) /\ UNCHANGED <<animations, counter>>
      [] c.op = "Animation" -> NewAnimation(c.arg)
      [] c.op = "animate"   -> Animate(c.self, c.arg, sec(IntValue(1)))
                               /\ UNCHANGED <<animations, counter>>
      [] c.op = "enter"     -> WithMedia(0, c.arg) /\ UNCHANGED <<animations, counter>>
      [] c.op = "exit"      -> Leave(FALSE) /\ UNCHANGED <<animations, counter>>
      [] c.op = "redefine"  -> Redefine(c.self) /\ UNCHANGED <<animations, counter>>

\* The first execution makes a call and the script records it.
Record(c) ==
    /\ run = 1
    /\ Len(script) < MaxScript
    /\ Effect(c)
    /\ script' = Append(script, c)
    /\ UNCHANGED <<run, pos, out1, selIn, selOut, objVars, funVars>>

DetSelect == Record(BuilderCall("select", 0, <<".", "a">>))

DetRule == \E t \in 1..Len(styles) : Record(BuilderCall("rule", t, <<"width", px(IntValue(10))>>))

DetOn == \E t \in 1..Len(styles) : Record(BuilderCall("on", t, <<"h","o","v","e","r">>))

DetAnimation == \E name \in AnimationNames : Record(BuilderCall("Animation", 0, name))

DetAnimate ==
    \E t \in 1..Len(styles), a \in 1..Len(animations) :
        Record(BuilderCall("animate", t, a))

DetEnter == \E w \in Widths : Record(BuilderCall("enter", 0, w))

DetExit == Record(BuilderCall("exit", 0, 0))

DetRedefine == \E t \in 1..Len(styles) : Record(BuilderCall("redefine", t, 0))

\* The script is over: render the sheet, then start over with a new
\* StyleSheet in the same process.
DetRerun ==
    /\ run = 1
    /\ script /= <<>>
    /\ withStack = <<>>
    /\ out1' = Render
    /\ run' = 2
    /\ pos' = 1
    /\ styles' = <<>>
    /\ animations' = <<>>
    /\ sheet_styles' = <<>>
    /\ medias' = <<>>
    /\ _media' = 0
    /\ last' = NoCall
    /\ nops' = 0
    /\ UNCHANGED <<counter, withStack, script, selIn, selOut, objVars, funVars>>

\* The second execution makes the next call of the script.
DetReplay ==
    /\ run = 2
    /\ pos <= Len(script)
    /\ Effect(script[pos])
    /\ pos' = pos + 1
    /\ UNCHANGED <<script, run, out1, selIn, selOut, objVars, funVars>>

NextDet ==
    \/ DetSelect
    \/ DetRule
    \/ DetOn
    \/ DetAnimation
    \/ DetAnimate
    \/ DetEnter
    \/ DetExit
    \/ DetRedefine
    \/ DetRerun
    \/ DetReplay

SpecDet == Init /\ [][NextDet]_vars

\* C4: the second execution of a script renders the text the first one
\* rendered.
C4_SameOutput == (run = 2 /\ pos > Len(script)) => Render = out1

(***************************************************************************)
(* Properties of the style sheet (Spec).                                   *)
(***************************************************************************)
CssOf(style) == SelectorCss(styles[style].selector[1])

IsPrefix(s, u) == Len(s) <= Len(u) /\ SubSeq(u, 1, Len(s)) = s

Step(op) == nops' = nops + 1 /\ last'.op = op /\ last'.ok

\* The entries of coll (positions) whose selector serializes to key
Entries(coll, key) == {i \in 1..Len(coll) : CssOf(coll[i]) = key}

C1_Once ==
    \A i, j \in 1..Len(sheet_styles) :
        i /= j => /\ sheet_styles[i] /= sheet_styles[j]
                  /\ CssOf(sheet_styles[i]) /= CssOf(sheet_styles[j])

C1_Select ==
    Step("select") /\ _media = 0 =>
        /\ last'.ret \in Range(sheet_styles')
        /\ SelectorCss(styles'[last'.ret].selector[1]) = last'.arg
        /\ \A i \in Entries(sheet_styles, last'.arg) :
              /\ last'.ret = sheet_styles[i]
              /\ sheet_styles' = sheet_styles
        /\ Entries(sheet_styles, last'.arg) = {} =>
              /\ last'.ret = Len(styles) + 1
              /\ sheet_styles' = Append(sheet_styles, last'.ret)

RECURSIVE IsSub(_, _)
\* d is a sub-style of a, at any depth
IsSub(a, d) ==
    \E i \in 1..Len(styles[a]._children) :
        \/ styles[a]._children[i][2] = d
        \/ IsSub(styles[a]._children[i][2], d)

TopLevel(scope) == IF scope = 0 THEN sheet_styles ELSE medias[scope].styles

\* The items of render between positions i and j (exclusive) are all
\* sub-styles of the style emitted at i.
Within(items, i, j) == \A k \in (i + 1)..(j - 1) : IsSub(items[i][1], items[k][1])

C3_Order(items) ==
    \* unscoped styles first, then the media queries in the order of medias
    /\ \A i, j \in 1..Len(items) : i < j => items[i][2] <= items[j][2]
    \* the top-level styles of each scope, in the order they were added
    /\ \A scope \in 0..Len(medias) :
          \A a, b \in 1..Len(TopLevel(scope)) : a < b =>
              \E i, j \in 1..Len(items) :
                  /\ i < j
                  /\ items[i] = <<TopLevel(scope)[a], scope>>
                  /\ items[j] = <<TopLevel(scope)[b], scope>>
    \* each sub-style after its style, only sub-styles of that style between
    /\ \A s \in 1..Len(styles) : \A c \in 1..Len(styles[s]._children) :
          \A i \in 1..Len(items) : items[i][1] = s =>
              \E j \in (i + 1)..Len(items) :
                  /\ items[j] = <<styles[s]._children[c][2], items[i][2]>>
                  /\ Within(items, i, j)
    \* sub-styles of one style in the order they were first derived: a Style
    \* made later has a larger identity
    /\ \A i, j \in 1..Len(items) :
          (/\ i < j
           /\ \E s \in 1..Len(styles) :
                 /\ \E c \in 1..Len(styles[s]._children) :
                       styles[s]._children[c][2] = items[i][1]
                 /\ \E c \in 1..Len(styles[s]._children) :
                       styles[s]._children[c][2] = items[j][1]
                 /\ \A k \in i..j : items[k][1] /= s)
          => items[i][1] < items[j][1]
    \* nothing else is emitted, and nothing twice
    /\ \A i \in 1..Len(items) :
          \/ \E a \in 1..Len(TopLevel(items[i][2])) : TopLevel(items[i][2])[a] = items[i][1]
          \/ \E k \in 1..(i - 1) : IsSub(items[k][1], items[i][1])
    /\ \A i, j \in 1..Len(items) : i /= j => items[i] /= items[j]

\* C3: render emits the unscoped top-level styles in insertion order, each
\* followed by its sub-styles depth first in the order they were first
\* derived, and after all of them the styles of each media query, in the
\* order the media queries were opened.
C3_RenderOrder == C3_Order(RenderItems)

\* C3 witness: render emits an unscoped style, its two sub-styles and then a
\* media query holding a style.
C3_Witness ==
    /\ Len(RenderItems) = 4
    /\ Len(sheet_styles) = 1
    /\ Len(styles[sheet_styles[1]]._children) = 2
    /\ Len(medias) = 1
    /\ Len(medias[1].styles) = 1

C5_Untagged ==
    (last.op = "exit" /\ Step("select")) =>
        /\ last'.ret \in Range(sheet_styles')
        /\ \A m \in 1..Len(medias') : last'.ret \notin Range(medias'[m].styles)

\* C5: once a media block is left, at its end or by an exception, the sheet
\* has no active media query, and the style a select() made right after
\* returns is an unscoped one that is in no media query.
C5_ScopeReleased ==
    /\ [](last.op = "exit" => _media = 0)
    /\ [][C5_Untagged]_vars

\* C5 witness: a block that holds a style was left by an exception.
C5_Witness ==
    /\ last.op = "exit" /\ last.arg = TRUE
    /\ Len(medias[last.self].styles) >= 1
    /\ _media = 0

\* C6: entering a media query while another one is active raises an error
\* and leaves the active one in place.
C6_NestedEnterFails ==
    (last.op = "enter" /\ last.arg /= 0) => (~last.ok /\ _media = last.arg)

C7_New ==
    (last.op = "redefine" /\ last.ok) =>
        /\ last.ret = Len(styles)
        /\ last.ret /= last.self
        /\ styles[last.ret].selector = styles[last.self].selector
        /\ styles[last.ret]._rules = <<>>
        /\ _media /= 0
        /\ medias[_media].styles /= <<>>
        /\ last.ret = medias[_media].styles[Len(medias[_media].styles)]
        /\ last.ret \notin Range(sheet_styles)

C7_Frame ==
    /\ Step("rule") =>
          \A s \in 1..Len(styles) : s /= last'.self => styles'[s] = styles[s]
    /\ Step("redefine") =>
          \A s \in 1..Len(styles) : styles'[s] = styles[s]

\* C7: redefine(style) inside a media block returns a new Style with the
\* selector of the given one and no rules, added to the active media query
\* and not to the unscoped entries; the call changes no existing style, and
\* a rule() on any style changes no other style.
C7_Redefine == []C7_New /\ [][C7_Frame]_vars

\* C7 witness: a rule was added to a redefined style whose original has a
\* rule of its own.
C7_Witness ==
    /\ last.op = "rule"
    /\ _media /= 0
    /\ last.self \in Range(medias[_media].styles)
    /\ \E s \in Range(sheet_styles) :
          /\ styles[s].selector = styles[last.self].selector
          /\ styles[s]._rules /= <<>>
          /\ styles[s]._rules /= styles[last.self]._rules

(***************************************************************************)
(* Properties of Style objects (SpecStyle).                                *)
(***************************************************************************)
ChildIds(st) == {st._children[i][2] : i \in 1..Len(st._children)}

\* The serialized selector a call of on/children derives, written out: the
\* selectors of this scenario have no attributes, so a state goes last.
Derived(self, op, arg) ==
    IF op = "on" THEN CssOf(self) \o <<":">> \o arg
    ELSE CssOf(self) \o <<">">> \o arg[1]
         \o (IF arg[2] /= 0 THEN <<":">> \o NthChild(arg[2]) ELSE <<>>)

C2_OnePerSelector ==
    \A s \in 1..Len(styles) : \A i, j \in 1..Len(styles[s]._children) :
        i /= j => /\ styles[s]._children[i][1] /= styles[s]._children[j][1]
                  /\ styles[s]._children[i][2] /= styles[s]._children[j][2]

C2_Derive(op) ==
    Step(op) =>
        LET self == last'.self
            key == Derived(self, op, last'.arg)
            had == {c \in ChildIds(styles[self]) : CssOf(c) = key}
        IN  /\ last'.ret \in ChildIds(styles'[self])
            /\ SelectorCss(styles'[last'.ret].selector[1]) = key
            /\ \A c \in had : last'.ret = c /\ styles' = styles
            /\ had = {} => last'.ret = Len(styles) + 1
            /\ \A s \in 1..Len(styles) : styles'[s]._rules = styles[s]._rules

\* C2: on() and children() return the sub-style already derived for the
\* same serialized selector, with the rules it has, and make a new one only
\* when there is none; _children holds one entry per derived selector.
C2_SameSubStyle ==
    /\ []C2_OnePerSelector
    /\ [][C2_Derive("on") /\ C2_Derive("children")]_vars

\* C2 witness: on("hover") returned the sub-style made by an earlier
\* on("hover"), with the rule it was given in between.
C2_Witness ==
    /\ last.op = "on" /\ last.ok
    /\ styles[last.ret]._rules /= <<>>
    /\ Len(styles[last.self]._children) = 1

RECURSIVE Dedup(_, _)
\* The elements of s not in seen, each once, in the order of s
Dedup(s, seen) ==
    IF s = <<>> THEN <<>>
    ELSE IF Head(s) \in seen THEN Dedup(Tail(s), seen)
    ELSE <<Head(s)>> \o Dedup(Tail(s), seen \cup {Head(s)})

\* The last of the sources that declares attr, 0 when none does
LastWith(others, attr) ==
    LET having == {i \in 1..Len(others) : HasKey(styles[others[i]]._rules, attr)}
    IN  IF having = {} THEN 0
        ELSE others[CHOOSE i \in having : \A j \in having : j <= i]

\* What apply(others) on self leaves behind
C8_Effect ==
    LET self == last'.self
        others == last'.arg
        old == styles[self]._rules
        new == styles'[self]._rules
    IN  /\ Keys(new) = Dedup(Keys(old) \o
                Flatten([i \in 1..Len(others) |-> Keys(styles[others[i]]._rules)]), {})
        /\ \A i \in 1..Len(new) :
              new[i][2] = IF LastWith(others, new[i][1]) /= 0
                          THEN DictGet(styles[LastWith(others, new[i][1])]._rules, new[i][1])
                          ELSE DictGet(old, new[i][1])
        /\ styles'[self]._children = styles[self]._children
        /\ Len(styles') = Len(styles)
        /\ \A s \in 1..Len(styles) :
              (s /= self \/ s \in Range(others)) => styles'[s] = styles[s]

C8_Copied == (Step("apply") /\ last'.self \notin Range(last'.arg)) => C8_Effect

\* C8 as stated, for any sources: apply(o1, ..., on) leaves in the target,
\* for every attribute, the value the last source declaring it had, keeps
\* the target's sub-styles and leaves every source unchanged.
C8_ApplyAny == [][Step("apply") => C8_Effect]_vars

\* C8, for sources other than the target: apply(o1, ..., on) leaves in the
\* target, for every attribute, the value of the last source that declares
\* it, or the target's own value when none does; the target's attributes
\* keep their places and new ones follow in the order the sources give them;
\* the target's sub-styles, the sources and every other style are unchanged
\* and no style is made.
C8_Apply == [][C8_Copied]_vars

\* C8 witness: apply(o1, o2) where both sources and the target declared
\* color with different values in o1 and o2, and a source has a sub-style.
C8_Witness ==
    /\ last.op = "apply"
    /\ Len(last.arg) = 2
    /\ last.self \notin Range(last.arg)
    /\ HasKey(styles[last.arg[1]]._rules, "color")
    /\ HasKey(styles[last.arg[2]]._rules, "color")
    /\ DictGet(styles[last.arg[1]]._rules, "color") /= DictGet(styles[last.arg[2]]._rules, "color")
    /\ DictGet(styles[last.self]._rules, "color") = DictGet(styles[last.arg[2]]._rules, "color")
    /\ styles[last.self]._rules[1][1] = "width"
    /\ \E i \in 1..2 : styles[last.arg[i]]._children /= <<>>
    /\ styles[last.self]._children = <<>>

C9_Written ==
    Step("rule") =>
        LET self == last'.self
            attr == last'.arg[1]
            old == styles[self]._rules
            new == styles'[self]._rules
        IN  /\ Keys(new) = IF HasKey(old, attr) THEN Keys(old) ELSE Append(Keys(old), attr)
            /\ \A i \in 1..Len(new) :
                  new[i][2] = IF new[i][1] = attr THEN PyStr(last'.arg[2]) ELSE old[i][2]

C9_Serialized ==
    \A s \in 1..Len(styles) :
        /\ Len(Declarations(styles[s])) = Len(styles[s]._rules)
        /\ \A i \in 1..Len(styles[s]._rules) :
              Declarations(styles[s])[i] =
                  styles[s]._rules[i][1] \o ": " \o styles[s]._rules[i][2] \o ";"

\* C9: rule(attr, value) leaves attr with the stringified value, an attribute
\* already declared keeps its place and a new one goes last, the other
\* declarations are untouched; css() writes the declarations in that order.
C9_Rule == []C9_Serialized /\ [][C9_Written]_vars

\* C9 witness: rule() overwrote the first of two declared attributes with a
\* Unit, which is now written as text.
C9_Witness ==
    /\ last.op = "rule"
    /\ last.arg = <<"width", px(IntValue(10))>>
    /\ Len(styles[last.self]._rules) = 2
    /\ styles[last.self]._rules[1] = <<"width", "10px">>
    /\ nops = 2

(***************************************************************************)
(* Properties of Selector (SpecSel).                                       *)
(***************************************************************************)
\* s is one TOKEN of the selector grammar
IsToken(s) == TOKEN(s, 1) = Len(s) + 1

\* Every part the selector is built from is a TOKEN
TokensOnly(sel) ==
    /\ sel._tag = <<>> \/ IsToken(sel._tag)
    /\ sel._id = <<>> \/ IsToken(sel._id)
    /\ \A i \in 1..Len(sel._classes) : IsToken(sel._classes[i])
    /\ \A i \in 1..Len(sel._states) : IsToken(sel._states[i])
    /\ \A i \in 1..Len(sel._attrs) :
          IsToken(sel._attrs[i][1]) /\ IsToken(sel._attrs[i][2])

RoundTrip ==
    /\ selOut.ok
    /\ SelectorCss(selOut.sel[1]) = SelectorCss(selIn)

\* C10 as stated: for every Selector without a parent built from a tag, an
\* id, classes, states and attributes, parse(s.css()).css() equals s.css().
C10_RoundTripAny == last.op = "parse" => RoundTrip

\* C10, amended: the round trip holds for every such Selector whose tag, id,
\* classes, states, attribute names and attribute values are tokens of the
\* selector grammar.
C10_RoundTripTokens == (last.op = "parse" /\ TokensOnly(selIn)) => RoundTrip

\* C10 witness: a selector with a tag, an id, two classes, a state and two
\* attributes, all tokens, was serialized and parsed back.
C10_Witness ==
    /\ last.op = "parse"
    /\ TokensOnly(selIn)
    /\ selIn._tag /= <<>> /\ selIn._id /= <<>>
    /\ Len(selIn._classes) = 2 /\ Len(selIn._states) = 1 /\ Len(selIn._attrs) = 2
    /\ selOut.ok
    /\ selOut.sel[1] = selIn

(***************************************************************************)
(* SpecParse: Selector.parse called on a string.                           *)
(***************************************************************************)
MaxStrLen == 5

\* Characters of selector strings: token characters, the hyphen, the
\* punctuation of the grammar and one character foreign to it.
Alphabet == {"a", "0", "-", ".", "#", ":", "[", "=", "]", "*"}

Strings == UNION {[1..k -> Alphabet] : k \in 0..MaxStrLen}

InitStrings ==
    /\ InitSheet
    /\ InitSel
    /\ InitDet
    /\ InitObj
    /\ input \in Strings
    /\ output = NoOutput

\* What the caller of Selector.parse gets: the Selector, or the ValueError
Outcome(r) == [ok |-> r.ok, ret |-> IF r.ok THEN r.sel ELSE <<"ValueError">>]

\* Selector.parse(input)
ParseString ==
    /\ last.op = ""
    /\ output' = Outcome(Parse(input, <<>>))
    /\ last' = [NoCall EXCEPT !.op = "parse"]
    /\ UNCHANGED <<styles, animations, counter, sheet_styles, medias, _media,
                   withStack, nops, selVars, detVars, objVars, input>>

NextParse == ParseString

SpecParse == InitStrings /\ [][NextParse]_vars

(***************************************************************************)
(* Properties of Selector.parse (SpecParse).                               *)
(***************************************************************************)
\* x is alphanumeric runs joined by single hyphens
WellFormedToken(x) ==
    /\ x /= <<>>
    /\ \A i \in 1..Len(x) : x[i] \in TOKEN_PART \cup {"-"}
    /\ x[1] /= "-" /\ x[Len(x)] /= "-"
    /\ \A i \in 1..(Len(x) - 1) : ~(x[i] = "-" /\ x[i + 1] = "-")

\* x is (c token)*
Marked(x, c) ==
    \/ x = <<>>
    \/ /\ Head(x) = c
       /\ \A i \in 1..Len(x) : x[i] = c => i < Len(x) /\ x[i + 1] /= c
       /\ \A i \in 1..Len(x) : x[i] \in TOKEN_PART \cup {"-", c}
       /\ \A i \in 1..Len(x) : x[i] = "-" =>
             /\ i > 1 /\ x[i - 1] \in TOKEN_PART
             /\ i < Len(x) /\ x[i + 1] \in TOKEN_PART

\* x is one [token=token]
Bracketed(x) ==
    /\ Len(x) >= 5
    /\ x[1] = "[" /\ x[Len(x)] = "]"
    /\ \E e \in 3..(Len(x) - 2) :
          /\ x[e] = "="
          /\ WellFormedToken(SubSeq(x, 2, e - 1))
          /\ WellFormedToken(SubSeq(x, e + 1, Len(x) - 1))

\* x is ([token=token])*
RECURSIVE BracketedAll(_)
BracketedAll(x) ==
    \/ x = <<>>
    \/ \E e \in 5..Len(x) : Bracketed(SubSeq(x, 1, e)) /\ BracketedAll(SubSeq(x, e + 1, Len(x)))

\* s is a string of the grammar TAG? ID? CLASSES* STATES* ATTRS*
InGrammar(s) ==
    \E p1 \in 1..(Len(s) + 1) :
        /\ p1 = 1 \/ WellFormedToken(Slice(s, 1, p1))
        /\ \E p2 \in p1..(Len(s) + 1) :
            /\ p2 = p1 \/ (s[p1] = "#" /\ WellFormedToken(Slice(s, p1 + 1, p2)))
            /\ \E p3 \in p2..(Len(s) + 1) :
                /\ Marked(Slice(s, p2, p3), ".")
                /\ \E p4 \in p3..(Len(s) + 1) :
                    /\ Marked(Slice(s, p3, p4), ":")
                    /\ BracketedAll(Slice(s, p4, Len(s) + 1))

MaxSelectors == 4
MaxObjOps == 3

\* The Selector value an object stands for
RECURSIVE Deref(_, _, _)
Deref(hs, ds, x) ==
    Selector(hs[x]._tag, hs[x]._id, hs[x]._classes, hs[x]._states,
             IF hs[x]._parent = 0 THEN <<>> ELSE <<Deref(hs, ds, hs[x]._parent)>>,
             ds[hs[x]._attrs])

\* Selector.__init__ for the value v: a new object whose _attrs is a new
\* dict (dict(**attrs)) and whose parent is the object it was given.
SelectorInit(hs, ds, v, parent) ==
    [ ok        |-> TRUE,
      selectors |-> Append(hs, [ _tag |-> v._tag, _id |-> v._id,
                                 _classes |-> v._classes, _states |-> v._states,
                                 _attrs |-> Len(ds) + 1, _parent |-> parent ]),
      dicts     |-> Append(ds, v._attrs),
      ret       |-> Len(hs) + 1 ]

\* An on() that copies the object and updates the copy in place: the copy
\* and the receiver hold the same dict
ObjOnShallowCopy(hs, ds, self, states, attrs) ==
    [ ok        |-> TRUE,
      selectors |-> Append(hs, [hs[self] EXCEPT !._states = @ \o states]),
      dicts     |-> [ds EXCEPT ![hs[self]._attrs] = MakeDict(attrs, @)],
      ret       |-> Len(hs) + 1 ]

\* self.on(*states, **attrs)
ObjOn(hs, ds, self, states, attrs) ==
    SelectorInit(hs, ds, SelectorOn(Deref(hs, ds, self), states, attrs), hs[self]._parent)

\* Selector.parse(selector, parent=parent) making its object
ObjParsed(hs, ds, r, parent) ==
    IF r.ok THEN SelectorInit(hs, ds, r.sel[1], parent)
    ELSE [ok |-> FALSE, selectors |-> hs, dicts |-> ds, ret |-> 0]

\* s.on(f"nth-child({nth})") when nth is not None
ObjNth(r, nth) ==
    IF r.ok /\ nth /= 0
    THEN ObjOn(r.selectors, r.dicts, r.ret, <<NthChild(nth)>>, <<>>)
    ELSE r

\* self.children(selector, nth=nth)
ObjChildren(hs, ds, self, selector, nth) ==
    ObjNth(ObjParsed(hs, ds, Parse(selector, <<>>), self), nth)

\* The script's call returned r
ObjCall(op, self, arg, r) ==
    /\ nops < MaxObjOps
    /\ Len(r.selectors) <= MaxSelectors
    /\ selectors' = r.selectors
    /\ dicts' = r.dicts
    /\ Call(op, self, arg, r.ok, r.ret)
    /\ UNCHANGED <<styles, animations, counter, sheetFrame, selVars, detVars, funVars>>

OnStates == { <<>>, << <<"h","o","v","e","r">> >> }
OnAttrs == { <<>>, << <<<<"x">>, <<"z">>>> >> }

ObjOnCall ==
    \E self \in 1..Len(selectors), states \in OnStates, attrs \in OnAttrs :
        ObjCall("on", self, <<states, attrs>>, ObjOn(selectors, dicts, self, states, attrs))

ObjChildrenCall ==
    \E self \in 1..Len(selectors), selector \in ChildSelectors, nth \in Nths :
        ObjCall("children", self, <<selector, nth>>,
                ObjChildren(selectors, dicts, self, selector, nth))

\* A later change made through the object x: x._attrs[k] = v
ObjSetAttr ==
    \E x \in 1..Len(selectors) :
        /\ nops < MaxObjOps
        /\ dicts' = [dicts EXCEPT ![selectors[x]._attrs] = DictSet(@, <<"x">>, <<"w">>)]
        /\ Call("setattr", x, <<"x">>, TRUE, x)
        /\ UNCHANGED <<selectors, styles, animations, counter, sheetFrame,
                       selVars, detVars, funVars>>

NextObj ==
    \/ ObjOnCall
    \/ ObjChildrenCall
    \/ ObjSetAttr

\* The script starts with one Selector it has parsed.
FirstSelectors == { <<".", "a">>, <<"p", "[", "x", "=", "y", "]">> }

InitObjects ==
    /\ InitSheet
    /\ InitSel
    /\ InitDet
    /\ InitFun
    /\ \E s \in FirstSelectors :
          /\ selectors = ObjParsed(<<>>, <<>>, Parse(s, <<>>), 0).selectors
          /\ dicts = ObjParsed(<<>>, <<>>, Parse(s, <<>>), 0).dicts

SpecObj == InitObjects /\ [][NextObj]_vars

(***************************************************************************)
(* Properties of Selector objects (SpecObj).                               *)
(***************************************************************************)
\* y is x, or an object x has among its parents
RECURSIVE ReachesUp(_, _)
ReachesUp(x, y) ==
    \/ x = y
    \/ selectors[x]._parent /= 0 /\ ReachesUp(selectors[x]._parent, y)

C12_New ==
    ((Step("on") \/ Step("children")) /\ last'.ok) =>
        /\ last'.ret > Len(selectors)
        /\ last'.ret <= Len(selectors')
        /\ SubSeq(selectors', 1, Len(selectors)) = selectors
        /\ SubSeq(dicts', 1, Len(dicts)) = dicts
        /\ \A y \in 1..Len(selectors) :
              Deref(selectors', dicts', y) = Deref(selectors, dicts, y)

C12_Unseen ==
    Step("setattr") =>
        \A y \in 1..Len(selectors) :
            ~ReachesUp(y, last'.self) =>
                Deref(selectors', dicts', y) = Deref(selectors, dicts, y)

\* C12: on() and children() return a new Selector object and leave every
\* Selector that existed, the receiver included, with the tag, id, classes,
\* states, attributes and parent it had; a later change made through one
\* Selector shows through no other one, except those it is a parent of.
C12_Pure == [][C12_New /\ C12_Unseen]_vars

\* C12 witness: the attributes of a Selector that on() returned were changed
\* afterwards, and the receiver, which has attributes, still has its own.
C12_Witness ==
    /\ last.op = "setattr"
    /\ last.self > 1
    /\ selectors[last.self]._parent = 0
    /\ dicts[selectors[1]._attrs] = << <<<<"x">>, <<"y">>>> >>
    /\ dicts[selectors[last.self]._attrs] = << <<<<"x">>, <<"w">>>> >>

(***************************************************************************)
(* units.py: Unit.infer and Unit.scale (SpecUnits).  A constructor passed  *)
(* as an argument (on_float, on_int, unit) is known by its name.           *)
(***************************************************************************)
MaxValue == 6
MaxSteps == 7

\* unit(x) for the constructor named f
Construct(f, x) ==
    CASE f = "px"    -> px(x)
      [] f = "rem"   -> rem(x)
      [] f = "fr"    -> fr(x)
      [] f = "pc"    -> pc(x)
      [] f = "sec"   -> sec(x)
      [] f = "ms"    -> ms(x)
      [] f = "float" -> FloatValue(PyFloat(x))

\* An infer() that takes every number for an int
UnitInferIntOnly(x, on_float, on_int) ==
    IF IsInt(x) \/ IsFloat(x) THEN Construct(on_int, x) ELSE x

\* Unit.infer(x, on_float, on_int)
UnitInfer(x, on_float, on_int) ==
    IF IsInt(x) THEN Construct(on_int, x)
    ELSE IF IsFloat(x) THEN Construct(on_float, x)
    ELSE x

RECURSIVE ScaleFrom(_, _, _, _)
\* The values the loop of Unit.scale yields in n more rounds
ScaleFrom(unit, current, delta, n) ==
    IF n = 0 THEN <<>>
    ELSE <<Construct(unit, current)>>
         \o ScaleFrom(unit, FloatValue(FloatAdd(PyFloat(current), delta)), delta, n - 1)

\* list(Unit.scale(unit, min_value, max_value, steps)) for ints
\* min_value <= max_value: steps = 1 divides by zero
UnitScale(unit, min_value, max_value, steps) ==
    IF steps = 1 THEN [ok |-> FALSE, ret |-> <<"ZeroDivisionError">>]
    ELSE [ok  |-> TRUE,
          ret |-> ScaleFrom(unit, IntValue(min_value),
                            FloatDiv(max_value - min_value, steps - 1), steps)]

Constructors == {"px", "rem", "fr", "pc", "sec", "ms"}

Denominators == {2, 3, 10}

Floats == {FloatDiv(a, b) : a \in 0..MaxValue, b \in Denominators}

RawValues ==
    {IntValue(n) : n \in 0..MaxValue} \cup {IntValue(10)}
    \cup {BoolValue(b) : b \in BOOLEAN}
    \cup {FloatValue(x) : x \in Floats}
    \cup {None, StrValue("auto"), px(IntValue(2)), pc(FloatValue(FloatDiv(1, 2)))}

InferInputs ==
    [op : {"infer"}, x : RawValues, on_float : Constructors, on_int : {"px", "ms", "rem"}]

ScaleInputs ==
    {c \in [op : {"scale"}, unit : Constructors \cup {"float"},
            min_value : 0..MaxValue, max_value : 0..MaxValue, steps : 1..MaxSteps] :
        c.min_value <= c.max_value}

InitUnits ==
    /\ InitSheet
    /\ InitSel
    /\ InitDet
    /\ InitObj
    /\ input \in InferInputs \cup ScaleInputs
    /\ output = NoOutput

\* Unit.infer(x, on_float=..., on_int=...)
InferCall ==
    /\ last.op = ""
    /\ input.op = "infer"
    /\ output' = [ok |-> TRUE, ret |-> <<UnitInfer(input.x, input.on_float, input.on_int)>>]
    /\ last' = [NoCall EXCEPT !.op = "infer"]
    /\ UNCHANGED <<styles, animations, counter, sheet_styles, medias, _media,
                   withStack, nops, selVars, detVars, objVars, input>>

\* list(Unit.scale(unit, min_value, max_value, steps))
ScaleCall ==
    /\ last.op = ""
    /\ input.op = "scale"
    /\ output' = UnitScale(input.unit, input.min_value, input.max_value, input.steps)
    /\ last' = [NoCall EXCEPT !.op = "scale"]
    /\ UNCHANGED <<styles, animations, counter, sheet_styles, medias, _media,
                   withStack, nops, selVars, detVars, objVars, input>>

NextUnits == InferCall \/ ScaleCall

SpecUnits == InitUnits /\ [][NextUnits]_vars

(***************************************************************************)
(* Properties of Unit.infer and Unit.scale (SpecUnits).                    *)
(***************************************************************************)
\* The suffix each constructor gives its Unit
Suffix(f) ==
    CASE f = "px" -> "px" [] f = "rem" -> "rem" [] f = "fr" -> "fr"
      [] f = "pc" -> "%"  [] f = "sec" -> "s"   [] f = "ms" -> "ms"

Inferred == last.op = "infer"

\* isinstance(x, int) holds of an int and of a bool, which is an int
C19_Int ==
    (Inferred /\ input.x.type \in {"int", "bool"}) =>
        /\ output.ret[1].type = "Unit"
        /\ output.ret[1].unit = Suffix(input.on_int)
        /\ (input.on_int = "px") =>
               (/\ output.ret[1].value = IntValue(PyInt(input.x))
                /\ PyStr(output.ret[1]) = ToString(PyInt(input.x)) \o "px")

C19_Float ==
    (Inferred /\ input.x.type = "float") =>
        /\ output.ret[1].type = "Unit"
        /\ output.ret[1].unit = Suffix(input.on_float)
        /\ (input.on_float = "pc" /\ input.x.value = FloatDiv(1, 2)) =>
               (/\ output.ret[1].value = FloatValue(FromInt(50))
                /\ PyStr(output.ret[1]) = "50.0%")

C19_Other ==
    (Inferred /\ input.x.type \in {"None", "str", "Unit"}) => output.ret[1] = input.x

\* C19: Unit.infer(x, on_float, on_int) never fails; for an int x (a bool
\* is one) it returns on_int(x), a Unit with on_int's suffix, which for the
\* default px has the value x and is written "<x>px"; for a float x it
\* returns on_float(x), a Unit with on_float's suffix, which for pc and 0.5
\* has the value 50.0 and is written "50.0%"; any other x (None, a str, a
\* Unit) is returned as it is.
C19_Infer == (Inferred => output.ok) /\ C19_Int /\ C19_Float /\ C19_Other

C19_Witness ==
    /\ Inferred
    /\ input.x = FloatValue(FloatDiv(1, 2))
    /\ input.on_float = "pc"
    /\ output.ret[1] = Unit(FloatValue(FromInt(50)), "%")

\* Two numbers that compare equal in Python (1 == 1.0)
SameNumber(a, b) == PyFloat(a) = PyFloat(b)

\* Two results of a constructor with equal values and the same suffix
SameUnit(u, v) ==
    /\ u.type = v.type
    /\ IF u.type = "Unit" THEN u.unit = v.unit /\ SameNumber(u.value, v.value)
       ELSE SameNumber(u, v)

\* C20: for steps >= 2, Unit.scale(unit, min, max, steps) yields steps
\* values, the first equal to unit(min) and the last equal to unit(max).
C20_ScaleEnds ==
    (last.op = "scale" /\ input.steps >= 2) =>
        /\ output.ok
        /\ Len(output.ret) = input.steps
        /\ SameUnit(output.ret[1], Construct(input.unit, IntValue(input.min_value)))
        /\ SameUnit(output.ret[input.steps], Construct(input.unit, IntValue(input.max_value)))

(***************************************************************************)
(* style.py: the declaration helpers of Style.  An argument that the call  *)
(* does not give is NotGiven, and the helper sees its default instead.     *)
(***************************************************************************)
NotGiven == [type |-> "missing", value |-> 0, unit |-> ""]

\* The value of a parameter with the default d
Given(x, d) == IF x = NotGiven THEN d ELSE x

\* bool(x)
Truthy(x) ==
    CASE x.type = "None"  -> FALSE
      [] x.type = "bool"  -> x.value
      [] x.type = "int"   -> x.value /= 0
      [] x.type = "float" -> x.value.bits /= <<>>
      [] x.type = "str"   -> x.value /= ""
      [] OTHER            -> TRUE

\* x == False
EqualsFalse(x) ==
    CASE x.type = "bool"  -> ~x.value
      [] x.type = "int"   -> x.value = 0
      [] x.type = "float" -> x.value.bits = <<>>
      [] OTHER            -> FALSE

\* if cond: self.rule(attr, value)
RuleIf(h, self, cond, attr, value) ==
    IF cond THEN StyleRule(h, self, attr, value) ELSE h

\* if x is not None: self.rule(attr, Unit.infer(x, on_float=on_float))
RuleInfer(h, self, x, attr, on_float) ==
    RuleIf(h, self, Given(x, None) /= None, attr, UnitInfer(Given(x, None), on_float, "px"))

\* Style.font(size, weight=, family=)
StyleFont(h, self, size, weight, family) ==
    RuleIf(RuleIf(RuleIf(h,
        self, Truthy(Given(size, None)), "font-size", UnitInfer(Given(size, None), "rem", "px")),
        self, Truthy(Given(weight, None)), "font-weight", Given(weight, None)),
        self, Truthy(Given(family, None)), "font-family", Given(family, None))

\* Style.text(align=, decoration=)
StyleText(h, self, align, decoration) ==
    RuleIf(RuleIf(h,
        self, Given(align, None) /= None, "text-align", Given(align, None)),
        self, Given(decoration, None) /= None, "text-decoration",
        IF EqualsFalse(Given(decoration, None)) THEN StrValue("none")
        ELSE Given(decoration, None))

\* Style.shadow(color, x=, y=, blur=, spread=): color is a string here
StyleShadow(h, self, color, x, y, blur, spread) ==
    IF Given(color, None) = None THEN StyleRule(h, self, "box-shadow", StrValue("none"))
    ELSE StyleRule(h, self, "box-shadow",
             StrValue(JoinWith(<<PyStr(UnitInfer(Given(x, IntValue(0)), "rem", "px")),
                                 PyStr(UnitInfer(Given(y, IntValue(0)), "rem", "px")),
                                 PyStr(UnitInfer(Given(blur, IntValue(0)), "rem", "px")),
                                 PyStr(UnitInfer(Given(spread, IntValue(0)), "rem", "px")),
                                 PyStr(color)>>, " ")))

\* Style.border(width, color, radius=)
StyleBorder(h, self, width, color, radius) ==
    RuleInfer(RuleIf(RuleInfer(h,
        self, width, "border-width", "rem"),
        self, Given(color, None) /= None, "border-color", Given(color, None)),
        self, radius, "border-radius", "rem")

\* Style.width(value, min=, max=)
StyleWidth(h, self, value, min, max) ==
    RuleInfer(RuleInfer(RuleInfer(h,
        self, value, "width", "pc"),
        self, min, "min-width", "pc"),
        self, max, "max-width", "pc")

\* Style.height(value, min=, max=)
StyleHeight(h, self, value, min, max) ==
    RuleInfer(RuleInfer(RuleInfer(h,
        self, value, "height", "pc"),
        self, min, "min-height", "pc"),
        self, max, "max-height", "pc")

\* Style.margin(all, left=, right=, top=, bottom=)
StyleMargin(h, self, all, left, right, top, bottom) ==
    RuleInfer(RuleInfer(RuleInfer(RuleInfer(RuleInfer(h,
        self, all, "margin", "rem"),
        self, left, "margin-left", "rem"),
        self, right, "margin-right", "rem"),
        self, top, "margin-top", "rem"),
        self, bottom, "margin-bottom", "rem")

\* A padding() that writes a zero for every side that is not given
StylePaddingZeros(h, self, all, left, right, top, bottom) ==
    RuleInfer(RuleInfer(RuleInfer(RuleInfer(RuleInfer(h,
        self, all, "padding", "rem"),
        self, Given(left, IntValue(0)), "padding-left", "rem"),
        self, Given(right, IntValue(0)), "padding-right", "rem"),
        self, Given(top, IntValue(0)), "padding-top", "rem"),
        self, Given(bottom, IntValue(0)), "padding-bottom", "rem")

\* Style.padding(all, left=, right=, top=, bottom=)
StylePadding(h, self, all, left, right, top, bottom) ==
    RuleInfer(RuleInfer(RuleInfer(RuleInfer(RuleInfer(h,
        self, all, "padding", "rem"),
        self, left, "padding-left", "rem"),
        self, right, "padding-right", "rem"),
        self, top, "padding-top", "rem"),
        self, bottom, "padding-bottom", "rem")

\* Style.rounded(radius): radius = 0.25 when it is None
StyleRounded(h, self, radius) ==
    StyleRule(h, self, "border-radius",
              UnitInfer(IF Given(radius, None) = None THEN FloatValue(FloatDiv(25, 100))
                        ELSE radius, "rem", "px"))

\* Style.display(display)
StyleDisplay(h, self, display) == StyleRule(h, self, "display", display)

\* Style.flexbox(direction, gap=, wrap=, reverse=, align=, justify=)
StyleFlexbox(h, self, direction, gap, wrap, reverse, align, justify) ==
    StyleRule(RuleIf(RuleIf(RuleIf(StyleRule(StyleDisplay(h, self, StrValue("flex")),
        self, "flex-direction",
        StrValue(Given(direction, StrValue("row")).value
                 \o (IF Truthy(Given(reverse, BoolValue(FALSE))) THEN "-reverse" ELSE ""))),
        self, Truthy(Given(wrap, BoolValue(FALSE))), "flex-wrap", StrValue("wrap")),
        self, Given(align, None) /= None, "align-items", Given(align, None)),
        self, Given(justify, None) /= None, "justify-content", Given(justify, None)),
        self, "gap", UnitInfer(Given(gap, IntValue(0)), "rem", "px"))

\* Style.flex(grow, shrink, basis), for numbers
StyleFlex(h, self, grow, shrink, basis) ==
    RuleInfer(RuleIf(RuleIf(h,
        self, Given(grow, None) /= None, "flex-grow",
        IF Given(grow, None) = None THEN None ELSE FloatValue(PyFloat(grow))),
        self, Given(shrink, None) /= None, "flex-shrink",
        IF Given(shrink, None) = None THEN None ELSE FloatValue(PyFloat(shrink))),
        self, basis, "flex-basis", "fr")

\* str(repeat(n, fr(1))) for an int n, any other template as it is
GridTemplate(x) ==
    IF IsInt(x)
    THEN StrValue("repeat(" \o NumStr(x) \o ", " \o PyStr(fr(IntValue(1))) \o ")")
    ELSE x

\* The rules grid() writes after its check
GridRules(h, self, columns, rows, auto_columns, auto_rows, gap) ==
    StyleRule(
        RuleIf(RuleIf(
            RuleIf(RuleIf(h,
                self, columns /= None, "grid-template-columns", GridTemplate(columns)),
                self, columns = None /\ auto_columns /= None, "grid-auto-columns", auto_columns),
            self, rows /= None, "grid-template-rows", GridTemplate(rows)),
            self, rows = None /\ auto_rows /= None, "grid-auto-rows", auto_rows),
        self, "gap", UnitInfer(gap, "fr", "px"))

\* A grid() without the check
StyleGridUnchecked(h, self, columns, rows, auto_columns, auto_rows, gap) ==
    [ok |-> TRUE,
     h  |-> GridRules(StyleDisplay(h, self, StrValue("grid")), self,
                      Given(columns, None), Given(rows, None),
                      Given(auto_columns, None), Given(auto_rows, None),
                      Given(gap, IntValue(0))),
     ret |-> <<>>]

\* Style.grid(columns=, rows=, auto_columns=, auto_rows=, gap=): display is
\* written before the check raises
StyleGrid(h, self, columns, rows, auto_columns, auto_rows, gap) ==
    IF Given(columns, None) = None /\ Given(rows, None) = None
    THEN [ok  |-> FALSE,
          h   |-> StyleDisplay(h, self, StrValue("grid")),
          ret |-> <<"ValueError", "Either columns or rows must be specified">>]
    ELSE [ok |-> TRUE,
          h  |-> GridRules(StyleDisplay(h, self, StrValue("grid")), self,
                           Given(columns, None), Given(rows, None),
                           Given(auto_columns, None), Given(auto_rows, None),
                           Given(gap, IntValue(0))),
          ret |-> <<>>]

\* The tuple (first, second)
TupleValue(first, second) == [type |-> "tuple", value |-> <<first, second>>, unit |-> ""]

\* f"{x[0]} / {x[1]+1}" for a tuple x
Span(x) == StrValue(ToString(x.value[1]) \o " / " \o ToString(x.value[2] + 1))

\* isinstance(x, tuple)
IsTuple(x) == x.type = "tuple"

PlaceValue(x) == IF IsTuple(x) THEN Span(x) ELSE x

\* Style.place(columns, rows)
StylePlace(h, self, columns, rows) ==
    RuleIf(RuleIf(h,
        self, Given(columns, None) /= None, "grid-column", PlaceValue(Given(columns, None))),
        self, Given(rows, None) /= None, "grid-row", PlaceValue(Given(rows, None)))

\* Style.position(position, left=, right=, top=, bottom=)
StylePosition(h, self, position, left, right, top, bottom) ==
    RuleInfer(RuleInfer(RuleInfer(RuleInfer(StyleRule(h,
        self, "position", position),
        self, left, "left", "rem"),
        self, right, "right", "rem"),
        self, top, "top", "rem"),
        self, bottom, "bottom", "rem")

\* The four rules transition() joins from _transitions
TransitionRules(h, self, transitions) ==
    StyleRule(StyleRule(StyleRule(StyleRule(h,
        self, "transition-property", StrValue(Column(transitions, 1))),
        self, "transition-duration", StrValue(Column(transitions, 2))),
        self, "transition-timing-function", StrValue(Column(transitions, 3))),
        self, "transition-delay", StrValue(Column(transitions, 4)))

\* The tuple transition() appends, as the strings the rules are joined from
TransitionOf(property, duration, timing, delay) ==
    << Given(property, StrValue("all")).value,
       PyStr(UnitInfer(Given(duration, ms(IntValue(150))), "sec", "ms")),
       Given(timing, StrValue("linear")).value,
       PyStr(UnitInfer(Given(delay, ms(IntValue(0))), "sec", "ms")) >>

\* A transition() that forgets the transitions made before
StyleTransitionLast(h, self, property, duration, timing, delay) ==
    TransitionRules([h EXCEPT ![self]._transitions =
                         <<TransitionOf(property, duration, timing, delay)>>],
                    self, <<TransitionOf(property, duration, timing, delay)>>)

\* Style.transition(property, duration, timing, delay)
StyleTransition(h, self, property, duration, timing, delay) ==
    TransitionRules([h EXCEPT ![self]._transitions =
                         Append(@, TransitionOf(property, duration, timing, delay))],
                    self,
                    Append(h[self]._transitions,
                           TransitionOf(property, duration, timing, delay)))

\* if x is not None: self._transforms[name] = value
TransformIf(d, x, name, value) ==
    IF Given(x, None) /= None THEN DictSet(d, name, PyStr(value)) ELSE d

\* _transforms after transform(...)
Transforms(d, translate_x, translate_y, scale_x, scale_y, rotate) ==
    TransformIf(TransformIf(TransformIf(TransformIf(TransformIf(d,
        translate_x, "translateX", UnitInfer(translate_x, "rem", "px")),
        translate_y, "translateY", UnitInfer(translate_y, "rem", "px")),
        scale_x, "scaleX", scale_x),
        scale_y, "scaleY", scale_y),
        rotate, "rotate", Unit(rotate, "deg"))

\* " ".join(f"{transform}({value})" ...)
TransformText(d) ==
    JoinWith([i \in 1..Len(d) |-> d[i][1] \o "(" \o d[i][2] \o ")"], " ")

\* Style.transform(translate_x, translate_y, scale_x, scale_y, rotate)
StyleTransform(h, self, translate_x, translate_y, scale_x, scale_y, rotate) ==
    StyleRule([h EXCEPT ![self]._transforms =
                   Transforms(@, translate_x, translate_y, scale_x, scale_y, rotate)],
              self, "transform",
              StrValue(TransformText(Transforms(h[self]._transforms, translate_x,
                                                translate_y, scale_x, scale_y, rotate))))

\* Style.translate(x, y)
StyleTranslate(h, self, x, y) == StyleTransform(h, self, x, y, NotGiven, NotGiven, NotGiven)

\* Style.scale(scale, x=, y=)
StyleScale(h, self, scale, x, y) ==
    IF Given(scale, None) /= None
    THEN StyleTransform(h, self, NotGiven, NotGiven, scale, scale, NotGiven)
    ELSE StyleTransform(h, self, NotGiven, NotGiven, x, y, NotGiven)

(***************************************************************************)
(* The helpers as calls on a heap of two styles (SpecHelpers).             *)
(***************************************************************************)
MaxHelperOps == 1

Sizes == {NotGiven, IntValue(4), FloatValue(FloatDiv(1, 2))}

OneSize == {NotGiven, IntValue(4)}

Words(w) == {NotGiven, StrValue(w)}

Flags == {NotGiven, BoolValue(TRUE)}

\* A style with three declarations
InitHelpers ==
    /\ styles = StyleRule(StyleRule(StyleRule(<<Style(<<>>)>>,
                     1, "margin-left", px(IntValue(1))),
                     1, "border-radius", px(IntValue(9))),
                     1, "display", StrValue("block"))
    /\ animations = <<>>
    /\ counter = 0
    /\ sheet_styles = <<>>
    /\ medias = <<>>
    /\ _media = 0
    /\ withStack = <<>>
    /\ last = NoCall
    /\ nops = 0
    /\ InitSel
    /\ InitDet
    /\ InitObj
    /\ InitFun

\* The optional arguments that a call gives
GivenNames(arg) == {name \in DOMAIN arg : arg[name] /= NotGiven} \ {"position"}

\* The calls drawn: grid() with any arguments, the other helpers with no
\* optional argument, with one, or with all of them
Drawn(op, arg) ==
    \/ op = "grid"
    \/ Cardinality(GivenNames(arg)) <= 1
    \/ GivenNames(arg) = DOMAIN arg \ {"position"}

\* A call of the helper op on self with the arguments arg, and its outcome
Helper(op, self, arg, ok, h, ret) ==
    /\ nops < MaxHelperOps
    /\ Drawn(op, arg)
    /\ styles' = h
    /\ last' = [op |-> op, self |-> self, arg |-> arg, ok |-> ok, ret |-> ret]
    /\ nops' = nops + 1
    /\ UNCHANGED <<animations, counter, sheet_styles, medias, _media, withStack,
                   selVars, detVars, objVars, funVars>>

Selves == 1..Len(styles)

HelpFont ==
    \E self \in Selves, size \in Sizes \cup {IntValue(0)},
       weight \in {NotGiven, IntValue(700)}, family \in Words("serif") :
        Helper("font", self, [size |-> size, weight |-> weight, family |-> family],
               TRUE, StyleFont(styles, self, size, weight, family), <<>>)

HelpText ==
    \E self \in Selves, align \in Words("center"),
       decoration \in Words("underline") \cup {BoolValue(FALSE)} :
        Helper("text", self, [align |-> align, decoration |-> decoration],
               TRUE, StyleText(styles, self, align, decoration), <<>>)

HelpShadow ==
    \E self \in Selves, color \in Words("red"), x \in OneSize, y \in OneSize,
       blur \in Sizes, spread \in OneSize :
        Helper("shadow", self,
               [color |-> color, x |-> x, y |-> y, blur |-> blur, spread |-> spread],
               TRUE, StyleShadow(styles, self, color, x, y, blur, spread), <<>>)

HelpBorder ==
    \E self \in Selves, width \in Sizes, color \in Words("red"), radius \in OneSize :
        Helper("border", self, [width |-> width, color |-> color, radius |-> radius],
               TRUE, StyleBorder(styles, self, width, color, radius), <<>>)

HelpWidth ==
    \E self \in Selves, value \in Sizes, min \in OneSize, max \in OneSize :
        Helper("width", self, [value |-> value, min |-> min, max |-> max],
               TRUE, StyleWidth(styles, self, value, min, max), <<>>)

HelpHeight ==
    \E self \in Selves, value \in Sizes, min \in OneSize, max \in OneSize :
        Helper("height", self, [value |-> value, min |-> min, max |-> max],
               TRUE, StyleHeight(styles, self, value, min, max), <<>>)

HelpMargin ==
    \E self \in Selves, all \in Sizes, left \in OneSize, right \in OneSize,
       top \in OneSize, bottom \in OneSize :
        Helper("margin", self,
               [all |-> all, left |-> left, right |-> right, top |-> top, bottom |-> bottom],
               TRUE, StyleMargin(styles, self, all, left, right, top, bottom), <<>>)

HelpPadding ==
    \E self \in Selves, all \in Sizes, left \in OneSize, right \in OneSize,
       top \in OneSize, bottom \in OneSize :
        Helper("padding", self,
               [all |-> all, left |-> left, right |-> right, top |-> top, bottom |-> bottom],
               TRUE, StylePadding(styles, self, all, left, right, top, bottom), <<>>)

HelpRounded ==
    \E self \in Selves, radius \in Sizes :
        Helper("rounded", self, [radius |-> radius],
               TRUE, StyleRounded(styles, self, radius), <<>>)

HelpFlexbox ==
    \E self \in Selves, direction \in Words("column"), gap \in OneSize, wrap \in Flags,
       reverse \in Flags, align \in Words("center"), justify \in Words("center") :
        Helper("flexbox", self,
               [direction |-> direction, gap |-> gap, wrap |-> wrap,
                reverse |-> reverse, align |-> align, justify |-> justify],
               TRUE,
               StyleFlexbox(styles, self, direction, gap, wrap, reverse, align, justify),
               <<>>)

HelpFlex ==
    \E self \in Selves, grow \in {NotGiven, IntValue(1)},
       shrink \in {NotGiven, FloatValue(FloatDiv(1, 2))}, basis \in Sizes :
        Helper("flex", self, [grow |-> grow, shrink |-> shrink, basis |-> basis],
               TRUE, StyleFlex(styles, self, grow, shrink, basis), <<>>)

GridCall(self, arg, r) == Helper("grid", self, arg, r.ok, r.h, r.ret)

HelpGrid ==
    \E self \in Selves, columns \in {NotGiven, IntValue(2), StrValue("1fr 2fr")},
       rows \in {NotGiven, IntValue(2)},
       auto_columns \in Words("auto"), auto_rows \in Words("auto"), gap \in Sizes :
        GridCall(self,
                 [columns |-> columns, rows |-> rows, auto_columns |-> auto_columns,
                  auto_rows |-> auto_rows, gap |-> gap],
                 StyleGrid(styles, self, columns, rows, auto_columns, auto_rows, gap))

HelpPlace ==
    \E self \in Selves, columns \in {NotGiven, IntValue(2), TupleValue(1, 2)},
       rows \in {NotGiven, IntValue(2), TupleValue(1, 2)} :
        Helper("place", self, [columns |-> columns, rows |-> rows],
               TRUE, StylePlace(styles, self, columns, rows), <<>>)

HelpPosition ==
    \E self \in Selves, left \in OneSize, right \in OneSize, top \in OneSize,
       bottom \in OneSize :
        Helper("position", self,
               [position |-> StrValue("absolute"), left |-> left, right |-> right,
                top |-> top, bottom |-> bottom],
               TRUE,
               StylePosition(styles, self, StrValue("absolute"), left, right, top, bottom),
               <<>>)

HelpTransition ==
    \E self \in Selves, property \in Words("opacity"),
       duration \in {NotGiven, IntValue(300), FloatValue(FloatDiv(1, 2))},
       timing \in Words("ease"), delay \in OneSize :
        Helper("transition", self,
               [property |-> property, duration |-> duration, timing |-> timing,
                delay |-> delay],
               TRUE, StyleTransition(styles, self, property, duration, timing, delay), <<>>)

HelpTransform ==
    \E self \in Selves, translate_x \in OneSize, translate_y \in OneSize,
       scale_x \in {NotGiven, IntValue(2)}, scale_y \in {NotGiven, IntValue(2)},
       rotate \in {NotGiven, IntValue(45)} :
        Helper("transform", self,
               [translate_x |-> translate_x, translate_y |-> translate_y,
                scale_x |-> scale_x, scale_y |-> scale_y, rotate |-> rotate],
               TRUE,
               StyleTransform(styles, self, translate_x, translate_y, scale_x, scale_y,
                              rotate),
               <<>>)

HelpTranslate ==
    \E self \in Selves, x \in Sizes, y \in Sizes :
        Helper("translate", self, [x |-> x, y |-> y],
               TRUE, StyleTranslate(styles, self, x, y), <<>>)

HelpScale ==
    \E self \in Selves, scale \in {NotGiven, IntValue(2)}, x \in {NotGiven, IntValue(2)},
       y \in {NotGiven, IntValue(2)} :
        Helper("scale", self, [scale |-> scale, x |-> x, y |-> y],
               TRUE, StyleScale(styles, self, scale, x, y), <<>>)

NextHelpers ==
    \/ HelpFont \/ HelpText \/ HelpShadow \/ HelpBorder \/ HelpWidth \/ HelpHeight
    \/ HelpMargin \/ HelpPadding \/ HelpRounded \/ HelpFlexbox \/ HelpFlex \/ HelpGrid
    \/ HelpPlace \/ HelpPosition \/ HelpTransition \/ HelpTransform \/ HelpTranslate
    \/ HelpScale

SpecHelpers == InitHelpers /\ [][NextHelpers]_vars

(***************************************************************************)
(* Properties of the declaration helpers (SpecHelpers).                    *)
(***************************************************************************)
\* The declarations a helper writes on behalf of each of its arguments
Declares(op, name) ==
    CASE op = "font"     -> {"font-" \o name}
      [] op = "text"     -> {"text-" \o name}
      [] op = "border"   -> {"border-" \o name}
      [] op \in {"width", "height"} ->
             {IF name = "value" THEN op ELSE name \o "-" \o op}
      [] op \in {"margin", "padding"} ->
             {IF name = "all" THEN op ELSE op \o "-" \o name}
      [] op = "flex"     -> {"flex-" \o name}
      [] op = "place"    -> {IF name = "columns" THEN "grid-column" ELSE "grid-row"}
      [] op = "position" -> {name}
      [] op = "rounded"  -> {"border-radius"}
      [] op = "shadow"   -> {"box-shadow"}
      [] op = "flexbox"  ->
             (CASE name \in {"direction", "reverse"} -> {"flex-direction"}
                [] name = "wrap"    -> {"flex-wrap"}
                [] name = "align"   -> {"align-items"}
                [] name = "justify" -> {"justify-content"}
                [] name = "gap"     -> {"gap"})
      [] op = "transition" ->
             {IF name = "timing" THEN "transition-timing-function"
              ELSE "transition-" \o name}
      [] op \in {"transform", "translate", "scale"} -> {"transform"}

\* The helpers the claim is about, and those whose parameters all default to None
GroupHelpers ==
    {"font", "text", "shadow", "border", "width", "height", "margin", "padding",
     "rounded", "flexbox", "flex", "place", "position", "transition", "transform",
     "translate", "scale"}

NoneDefaults ==
    {"font", "text", "border", "width", "height", "margin", "padding", "flex", "place",
     "position"}

\* The optional arguments of the last call, and those it omitted
Optional == DOMAIN last'.arg \ (IF last'.op = "position" THEN {"position"} ELSE {})

Omitted == {name \in Optional : last'.arg[name] = NotGiven}

\* The declarations of the receiver before and after the call
Before == styles[last'.self]._rules

After == styles'[last'.self]._rules

SameDeclaration(attr) ==
    /\ HasKey(After, attr) <=> HasKey(Before, attr)
    /\ HasKey(Before, attr) => DictGet(After, attr) = DictGet(Before, attr)

HelperStep(ops) == nops' = nops + 1 /\ last'.op \in ops

\* Nothing is written on behalf of an omitted argument
NothingForOmitted ==
    \A name \in Omitted : \A attr \in Declares(last'.op, name) : SameDeclaration(attr)

\* With every optional argument omitted, the declarations stay as they are
\* (position() still writes the position it is given)
AllOmittedUnchanged ==
    (Omitted = Optional) =>
        After = (IF last'.op = "position"
                 THEN DictSet(Before, "position", "absolute") ELSE Before)

C13_Quiet == HelperStep(NoneDefaults) => (last'.ok /\ NothingForOmitted /\ AllOmittedUnchanged)

\* What the helpers with other defaults write when every argument is omitted
DefaultsWritten ==
    CASE last'.op = "shadow"  -> DictSet(Before, "box-shadow", "none")
      [] last'.op = "rounded" -> DictSet(Before, "border-radius", "0.25rem")
      [] last'.op = "flexbox" ->
             DictSet(DictSet(DictSet(Before, "display", "flex"),
                             "flex-direction", "row"), "gap", "0px")
      [] last'.op = "transition" ->
             DictSet(DictSet(DictSet(DictSet(Before,
                 "transition-property", "all"), "transition-duration", "150ms"),
                 "transition-timing-function", "linear"), "transition-delay", "0ms")
      [] last'.op \in {"transform", "translate", "scale"} ->
             DictSet(Before, "transform", "")

\* The receiver has no transition and no transform yet
Unused ==
    /\ styles[last'.self]._transitions = <<>>
    /\ styles[last'.self]._transforms = <<>>

C13_Defaults ==
    HelperStep(GroupHelpers \ NoneDefaults) =>
        /\ last'.ok
        /\ (Omitted = Optional /\ Unused) => After = DefaultsWritten

C14_GridCheck ==
    (last.op = "grid") =>
        /\ last.ok <=> (last.arg.columns /= NotGiven \/ last.arg.rows /= NotGiven)
        /\ ~last.ok => last.ret[1] = "ValueError"

C14_Witness ==
    /\ last.op = "grid"
    /\ last.arg.columns = NotGiven
    /\ last.arg.rows = NotGiven
    /\ last.arg.auto_columns = StrValue("auto")
    /\ last.arg.gap = IntValue(4)
    /\ ~last.ok

(***************************************************************************)
(* animation.py: Animation.at and the names of animations (SpecAnim).      *)
(* animations[a] is the name of the Animation a and dicts[a] its           *)
(* _keyframes, a dict from Unit objects to Style objects.  Unit defines    *)
(* neither __eq__ nor __hash__, so a key is the object itself: a Unit      *)
(* object is known by the number of the call that made it.  script is the  *)
(* sequence of the calls made.                                             *)
(***************************************************************************)
MaxAnims == 3
MaxAnimOps == 3

\* rule.replace("_", "-") for the keyword names drawn
Kebab(rule) == IF rule = "background_color" THEN "background-color" ELSE rule

RECURSIVE StyleRules(_, _, _)
\* Style.rules(**rules)
StyleRules(h, self, rules) ==
    IF rules = <<>> THEN h
    ELSE StyleRules(StyleRule(h, self, Kebab(Head(rules)[1]), Head(rules)[2]),
                    self, Tail(rules))

\* The Unit object that the call number id makes
UnitObject(id, unit) == [id |-> id, value |-> unit]

\* The Style at() builds: Style(), apply(style) unless style is None
\* (<<>>), rules(**kwargs) when there are any
AtRules(h, style, kwargs) ==
    StyleRules(IF style = <<>> THEN Append(h, Style(<<>>))
               ELSE StyleApply(Append(h, Style(<<>>)), Len(h) + 1, style),
               Len(h) + 1, kwargs)

\* self._keyframes[pc(percent)] = rules
Keyframes(keyframes, key, rules) == DictSet(keyframes, key, rules)

AnimCalled(op, self, arg, ret) ==
    /\ nops < MaxAnimOps
    /\ nops' = nops + 1
    /\ last' = [op |-> op, self |-> self, arg |-> arg, ok |-> TRUE, ret |-> ret]
    /\ script' = Append(script, BuilderCall(op, self, arg))
    /\ UNCHANGED <<sheet_styles, medias, _media, withStack, selVars, run, pos, out1,
                   selectors, funVars>>

\* Animation(name)
AnimNew ==
    \E name \in AnimationNames \cup {<<"_a1">>} :
        /\ Len(animations) < MaxAnims
        /\ animations' = Append(animations, AnimationName(name, counter))
        /\ counter' = AnimationCounter(name, counter)
        /\ dicts' = Append(dicts, <<>>)
        /\ styles' = styles
        /\ AnimCalled("Animation", 0, name, Len(animations) + 1)

\* The arguments of at() drawn: percent, style (1 is the style of Init), kwargs
AtArguments ==
    { <<FloatValue(FloatDiv(1, 2)), <<>>, << <<"color", StrValue("red")>> >> >>,
      <<FloatValue(FloatDiv(1, 2)), <<>>, << <<"opacity", IntValue(1)>> >> >>,
      <<FloatValue(FloatDiv(1, 2)), <<1>>, <<>> >>,
      <<IntValue(1), <<>>, << <<"background_color", StrValue("red")>> >> >> }

\* animation.at(percent, style, **kwargs)
AnimAt ==
    \E self \in 1..Len(animations), arg \in AtArguments :
        /\ styles' = AtRules(styles, arg[2], arg[3])
        /\ dicts' = [dicts EXCEPT ![self] =
                        Keyframes(@, UnitObject(nops + 1, pc(arg[1])), Len(styles) + 1)]
        /\ UNCHANGED <<animations, counter>>
        /\ AnimCalled("at", self, arg, self)

NextAnim == AnimNew \/ AnimAt

\* One style, "color: blue", to pass to at()
InitAnim ==
    /\ styles = StyleRule(<<Style(<<>>)>>, 1, "color", StrValue("blue"))
    /\ animations = <<>>
    /\ counter = 0
    /\ sheet_styles = <<>>
    /\ medias = <<>>
    /\ _media = 0
    /\ withStack = <<>>
    /\ last = NoCall
    /\ nops = 0
    /\ InitSel
    /\ InitDet
    /\ InitObj
    /\ InitFun

SpecAnim == InitAnim /\ [][NextAnim]_vars

(***************************************************************************)
(* Properties of Animation (SpecAnim).                                     *)
(***************************************************************************)
\* C15: an animation has one keyframe for each percent given to at(): no
\* two of its keyframes are for the same percent.
C15_OneKeyframe ==
    \A a \in 1..Len(dicts) :
        \A i, j \in 1..Len(dicts[a]) :
            i /= j => dicts[a][i][1].value /= dicts[a][j][1].value

\* The calls that created the animations, in order
Creations == SelectSeq(script, LAMBDA c : c.op = "Animation")

Anonymous(a) == Creations[a].arg = <<>>

\* C16: two different Animations that were both created without a name
\* have different names, whatever named Animations were created around them.
C16_DistinctNames ==
    \A a, b \in 1..Len(animations) :
        (a /= b /\ Anonymous(a) /\ Anonymous(b)) => animations[a] /= animations[b]

C16_Witness ==
    /\ Len(animations) = 3
    /\ Anonymous(1) /\ ~Anonymous(2) /\ Anonymous(3)
    /\ animations = <<"_a0", "_a1", "_a1">>

(***************************************************************************)
(* presets.py: UtilitySystem.define (SpecDefine).  A list is a value of    *)
(* type "list" whose value is the sequence of its items; the variants are  *)
(* ints, a class name is the sequence of its characters.  The two          *)
(* callables are inputs: rule is lambda s, *v: s.rule("padding", v[0]),    *)
(* and name is None or lambda *v: "u" + "".join(map(str, v)).              *)
(***************************************************************************)
MaxLen == 3
MaxDims == 2

ListValue(items) == [type |-> "list", value |-> items, unit |-> ""]

\* isinstance(x, (list, tuple)) or isgenerator(x)
IsList(x) == x.type = "list"

RECURSIVE Product(_)
RECURSIVE ProductLastSlowest(_)
\* itertools.product with the last dimension slowest
ProductLastSlowest(dims) ==
    IF dims = <<>> THEN << <<>> >>
    ELSE Flatten([j \in 1..Len(dims[Len(dims)].value) |->
             [i \in 1..Len(ProductLastSlowest(SubSeq(dims, 1, Len(dims) - 1))) |->
                 Append(ProductLastSlowest(SubSeq(dims, 1, Len(dims) - 1))[i],
                        dims[Len(dims)].value[j])]])

\* list(itertools.product(*dims)): nested loops, the first dimension outermost
Product(dims) ==
    IF dims = <<>> THEN << <<>> >>
    ELSE Flatten([i \in 1..Len(Head(dims).value) |->
             [j \in 1..Len(Product(Tail(dims))) |->
                 <<Head(dims).value[i]>> \o Product(Tail(dims))[j]]])

\* The tuples define() makes of variants or of values; the list is not empty
Tuples(items) ==
    IF IsList(items[1]) THEN Product(items)
    ELSE [i \in 1..Len(items) |-> <<items[i]>>]

\* "-".join(parts) for sequences of characters
RECURSIVE JoinChars(_)
JoinChars(parts) ==
    IF parts = <<>> THEN <<>>
    ELSE IF Len(parts) = 1 THEN parts[1]
    ELSE parts[1] \o <<"-">> \o JoinChars(Tail(parts))

\* name(*variant): the default name, or the caller's
NameOf(name, clss, variant) ==
    IF name = "None"
    THEN JoinChars(<<clss>> \o [i \in 1..Len(variant) |-> Str(variant[i].value)])
    ELSE <<"u">> \o Flatten([i \in 1..Len(variant) |-> Str(variant[i].value)])

\* zip(_variants, _values)
Zip(a, b) == [i \in 1..(IF Len(a) <= Len(b) THEN Len(a) ELSE Len(b)) |-> <<a[i], b[i]>>]

\* The first top-level style of the sheet st whose selector serializes to key
SelectedIn(st, key) ==
    FirstOf(st.sheet_styles,
            {i \in 1..Len(st.sheet_styles) :
                SelectorCss(st.styles[st.sheet_styles[i]].selector[1]) = key})

\* self.select(selector) then rule(style, *value), on the sheet st
SelectAndRule(st, selector, p, value) ==
    IF ~p.ok
    THEN [st EXCEPT !.ok = FALSE, !.ret = <<"ValueError">>,
                    !.calls = Append(@, selector)]
    ELSE IF SelectedIn(st, SelectorCss(p.sel[1])) /= 0
    THEN [st EXCEPT !.styles = StyleRule(@, SelectedIn(st, SelectorCss(p.sel[1])),
                                         "padding", value[1]),
                    !.calls = Append(@, selector)]
    ELSE [st EXCEPT !.styles = StyleRule(Append(@, Style(p.sel)), Len(@) + 1,
                                         "padding", value[1]),
                    !.sheet_styles = Append(@, Len(st.styles) + 1),
                    !.calls = Append(@, selector)]

RECURSIVE DefineLoop(_, _, _, _)
\* for variant, value in zip(_variants, _values): ...
DefineLoop(st, name, clss, pairs) ==
    IF pairs = <<>> \/ ~st.ok THEN st
    ELSE DefineLoop(
             SelectAndRule(st, <<".">> \o NameOf(name, clss, Head(pairs)[1]),
                           Parse(<<".">> \o NameOf(name, clss, Head(pairs)[1]), <<>>),
                           Head(pairs)[2]),
             name, clss, Tail(pairs))

\* An empty sheet, before define()
NewSheet ==
    [ok |-> TRUE, ret |-> <<>>, styles |-> <<>>, sheet_styles |-> <<>>, calls |-> <<>>,
     variants |-> <<>>]

\* UtilitySystem().define(variants=, rule=, clss=, values=, name=)
Define(variants, clss, values, name) ==
    IF variants = <<>>
    THEN [NewSheet EXCEPT !.ok = FALSE, !.ret = <<"IndexError">>]
    ELSE IF values.type /= "None" /\ values.value = <<>>
    THEN [NewSheet EXCEPT !.ok = FALSE, !.ret = <<"IndexError">>,
                          !.variants = Tuples(variants)]
    ELSE DefineLoop([NewSheet EXCEPT !.variants = Tuples(variants)], name, clss,
                    Zip(Tuples(variants),
                        IF values.type = "None" THEN Tuples(variants) ELSE Tuples(values.value)))

\* The lists drawn: 0 .. k-1 for k up to MaxLen, and one with a repetition
Counting(k) == [i \in 1..k |-> IntValue(i - 1)]

Dimensions == {ListValue(Counting(k)) : k \in 0..MaxLen}

\* The variants drawn: flat lists, one with a repetition, and lists of lists
FlatVariants == [k \in 0..MaxLen |-> Counting(k)]

NestedVariants(k) == [1..k -> Dimensions]

\* The values drawn: None, lists of lengths, and lists of lists
ValuesDrawn ==
    <<None>>
    \o [k \in 1..(MaxLen + 1) |->
           ListValue([i \in 1..(k - 1) |-> Unit(IntValue(i - 1), "rem")])]
    \o <<ListValue(<<ListValue(Counting(2))>>),
          ListValue(<<ListValue(Counting(2)), ListValue(Counting(2))>>)>>

DefineInput(variants, w, clss, name) ==
    [op |-> "define", variants |-> variants, values |-> ValuesDrawn[w],
     clss |-> clss, name |-> name]

InitDefine ==
    /\ InitSheet
    /\ InitSel
    /\ InitDet
    /\ InitObj
    /\ \E w \in 1..Len(ValuesDrawn), clss \in {<<"p">>, <<>>}, name \in {"None", "u"} :
           \/ \E k \in 0..MaxLen : input = DefineInput(FlatVariants[k], w, clss, name)
           \/ input = DefineInput(<<IntValue(0), IntValue(0), IntValue(1)>>, w, clss, name)
           \/ \E k \in 1..MaxDims : \E variants \in NestedVariants(k) :
                  input = DefineInput(variants, w, clss, name)
    /\ output = NoOutput

\* sheet = UtilitySystem().define(...)
DefineCall ==
    /\ last.op = ""
    /\ output' = Define(input.variants, input.clss, input.values, input.name)
    /\ styles' = output'.styles
    /\ sheet_styles' = output'.sheet_styles
    /\ last' = [NoCall EXCEPT !.op = "define", !.ok = output'.ok]
    /\ UNCHANGED <<animations, counter, medias, _media, withStack, nops, selVars,
                   detVars, objVars, input>>

NextDefine == DefineCall

SpecDefine == InitDefine /\ [][NextDefine]_vars

\* |d_k| * ... * |d_n|: the number of tuples the dimensions from k on make
RECURSIVE SizeFrom(_, _)
SizeFrom(dims, k) ==
    IF k > Len(dims) THEN 1 ELSE Len(dims[k].value) * SizeFrom(dims, k + 1)

\* The tuples nested loops over the dimensions visit, the first loop outermost
NestedLoops(dims) ==
    [n \in 1..SizeFrom(dims, 1) |->
        [k \in 1..Len(dims) |->
            dims[k].value[(((n - 1) \div SizeFrom(dims, k + 1)) % Len(dims[k].value)) + 1]]]

\* variants is a list of lists
MultiDimensional(variants) ==
    variants /= <<>> /\ \A k \in 1..Len(variants) : IsList(variants[k])

\* C17: given a list of lists d1, ..., dk as variants, define() makes the
\* Cartesian product of the dimensions its variant tuples, |d1|*...*|dk| of
\* them, in nested-loop order: the first dimension varies slowest, the last
\* fastest.
C17_Product ==
    (last.op = "define" /\ MultiDimensional(input.variants))
        => /\ Len(output.variants) = SizeFrom(input.variants, 1)
           /\ output.variants = NestedLoops(input.variants)

\* define(variants=[[0, 1], [0, 1, 2]]) has selected six names, .p-0-0 first
\* and .p-0-1 second
C17_Witness ==
    /\ last.op = "define"
    /\ input.variants = <<ListValue(Counting(2)), ListValue(Counting(3))>>
    /\ input.values.type = "None" /\ input.clss = <<"p">> /\ input.name = "None"
    /\ output.ok
    /\ output.variants =
           << <<IntValue(0), IntValue(0)>>, <<IntValue(0), IntValue(1)>>,
              <<IntValue(0), IntValue(2)>>, <<IntValue(1), IntValue(0)>>,
              <<IntValue(1), IntValue(1)>>, <<IntValue(1), IntValue(2)>> >>
    /\ Len(output.calls) = 6
    /\ output.calls[2] = <<".", "p", "-", "0", "-", "1">>

\* The tuples the claim pairs: the product of a list of lists, one tuple
\* for each item of a flat list
Flattened(items) ==
    IF items = <<>> THEN <<>>
    ELSE IF IsList(items[1]) THEN NestedLoops(items)
    ELSE [i \in 1..Len(items) |-> <<items[i]>>]

\* The value tuples of the call: the variant tuples when values is None
ValueTuples ==
    IF input.values.type = "None" THEN Flattened(input.variants)
    ELSE Flattened(input.values.value)

\* min(#variants, #values)
Paired ==
    IF Len(Flattened(input.variants)) <= Len(ValueTuples)
    THEN Len(Flattened(input.variants)) ELSE Len(ValueTuples)

\* The style of the sheet the i-th select() returned
SelectedAt(i) ==
    CHOOSE s \in Range(output.sheet_styles) :
        SelectorCss(output.styles[s].selector[1]) = output.calls[i]

\* C18: define() pairs the variant tuples with the value tuples by
\* position and never fails: it selects exactly min(#variants, #values)
\* styles in variant order, the i-th as '.' + name(*variant_i), and
\* rule(style, *value_i) populates it; surplus variants or values are dropped.
C18_Pairs ==
    last.op = "define"
        => /\ output.ok
           /\ output.calls =
                  [i \in 1..Paired |->
                      <<".">> \o NameOf(input.name, input.clss,
                                        Flattened(input.variants)[i])]
           /\ \A i \in 1..Paired :
                  (\A j \in (i + 1)..Paired : output.calls[j] /= output.calls[i])
                      => DictGet(output.styles[SelectedAt(i)]._rules, "padding")
                             = PyStr(ValueTuples[i][1])
           /\ Cardinality(Range(output.sheet_styles)) = Cardinality(Range(output.calls))

(***************************************************************************)
(* units.py: Unit.scale as the generator it is (SpecScale).  The call      *)
(* makes the generator and runs none of its body; each next() runs the     *)
(* body up to the next yield.  output.frame is the generator's frame.      *)
(***************************************************************************)

\* g = Unit.scale(unit, min_value, max_value, steps): nothing has run yet
NewGenerator ==
    [ok |-> TRUE, ret |-> <<>>,
     frame |-> [at |-> "created", current |-> IntValue(0), delta |-> FromInt(0), n |-> 0]]

\* The first next(g): the body from its first line to the first yield
FirstNext(g, unit, min_value, max_value, steps) ==
    IF steps = 1
    THEN [g EXCEPT !.ok = FALSE, !.ret = <<"ZeroDivisionError">>, !.frame.at = "closed"]
    ELSE [g EXCEPT !.ret = <<Construct(unit, IntValue(min_value))>>,
                   !.frame = [at |-> "yielded", current |-> IntValue(min_value),
                              delta |-> FloatDiv(max_value - min_value, steps - 1),
                              n |-> 1]]

\* A later next(g): current += delta, then the next round of the loop
LaterNext(g, unit, steps) ==
    IF g.frame.n < steps
    THEN [g EXCEPT !.ret = <<Construct(unit, FloatValue(FloatAdd(PyFloat(g.frame.current),
                                                                  g.frame.delta)))>>,
                   !.frame.current = FloatValue(FloatAdd(PyFloat(g.frame.current),
                                                         g.frame.delta)),
                   !.frame.n = @ + 1]
    ELSE [g EXCEPT !.ret = <<"StopIteration">>, !.frame.at = "closed"]

InitScale ==
    /\ InitSheet
    /\ InitSel
    /\ InitDet
    /\ InitObj
    /\ input \in ScaleInputs
    /\ output = NoOutput

\* g = Unit.scale(...)
ScaleCreate ==
    /\ last.op = ""
    /\ output' = NewGenerator
    /\ last' = [NoCall EXCEPT !.op = "scale"]
    /\ UNCHANGED <<styles, animations, counter, sheet_styles, medias, _media,
                   withStack, nops, selVars, detVars, objVars, input>>

\* next(g)
ScaleNext ==
    /\ last.op \in {"scale", "next"}
    /\ output.frame.at /= "closed"
    /\ output' = IF output.frame.at = "created"
                 THEN FirstNext(output, input.unit, input.min_value, input.max_value,
                                input.steps)
                 ELSE LaterNext(output, input.unit, input.steps)
    /\ last' = [NoCall EXCEPT !.op = "next", !.ok = output'.ok]
    /\ UNCHANGED <<styles, animations, counter, sheet_styles, medias, _media,
                   withStack, nops, selVars, detVars, objVars, input>>

NextScale == ScaleCreate \/ ScaleNext

SpecScale == InitScale /\ [][NextScale]_vars

\* C21: Unit.scale with steps == 1 is rejected at the call or has a defined
\* result: once the call has returned a generator, consuming its values
\* never fails.
C21_NoLateFailure ==
    (last.op = "next" /\ input.steps = 1) => output.ok

(***************************************************************************)
(* More of Python's float arithmetic, for color.py: x - y for x >= y,     *)
(* comparison, and the product of two doubles one of which has few bits.   *)
(***************************************************************************)
\* a < b for two bit sequences of the same length
LessBits(a, b) == \E i \in 1..Len(a) : a[i] < b[i] /\ \A j \in 1..(i - 1) : a[j] = b[j]

\* a - b for two bit sequences of the same length with a >= b: a plus the
\* complement of b plus one, without the carry out
DiffBits(a, b) == StripLeft(Tail(AddBits(a, [i \in 1..Len(b) |-> 1 - b[i]], 1)))

LessAt(x, y, e) ==
    LessBits(PadLeft(Shifted(x, e), Longer(Shifted(x, e), Shifted(y, e))),
             PadLeft(Shifted(y, e), Longer(Shifted(x, e), Shifted(y, e))))

\* x < y for two doubles
FloatLess(x, y) ==
    IF y.bits = <<>> THEN FALSE
    ELSE IF x.bits = <<>> THEN TRUE
    ELSE LessAt(x, y, Lower2(x.exp, y.exp))

FloatSubAt(x, y, e) ==
    Rounded(DiffBits(PadLeft(Shifted(x, e), Longer(Shifted(x, e), Shifted(y, e))),
                     PadLeft(Shifted(y, e), Longer(Shifted(x, e), Shifted(y, e)))),
            e, FALSE)

\* x - y for two doubles, x >= y
FloatSub(x, y) ==
    IF y.bits = <<>> THEN x ELSE FloatSubAt(x, y, Lower2(x.exp, y.exp))

\* x * p for two doubles, p of at most 14 bits (0.0, 0.5, 1.0, ...)
FloatTimes(x, p) ==
    IF x.bits = <<>> \/ p.bits = <<>> THEN FromInt(0)
    ELSE Rounded(MulBits(x.bits, FromBits(p.bits)), x.exp + p.exp, FALSE)

(***************************************************************************)
(* color.py: the Color class, the rgb space, hex, and Color.towards.  A    *)
(* Color holds three ints and an alpha, which is an int or a float.        *)
(***************************************************************************)
MaxChannel == 255

\* Color(red, green, blue, alpha=alpha)
Color(red, green, blue, alpha) ==
    [type |-> "Color", r |-> red, g |-> green, b |-> blue,
     a |-> IF alpha.type = "None" THEN FloatValue(FromInt(1)) ELSE alpha]

\* The default of the alpha parameters: 1.0
DefaultAlpha == FloatValue(FromInt(1))

\* Color.__str__
ColorStr(c) ==
    "rgba(" \o ToString(c.r) \o "," \o ToString(c.g) \o "," \o ToString(c.b) \o ","
    \o NumStr(c.a) \o ")"

HexDigits == <<"0", "1", "2", "3", "4", "5", "6", "7", "8", "9", "a", "b", "c", "d", "e", "f">>

\* hexlify of a byte without its leading zero
HexOfByteShort(n) ==
    IF n < 16 THEN <<HexDigits[n + 1]>>
    ELSE <<HexDigits[(n \div 16) + 1], HexDigits[(n % 16) + 1]>>

\* hexlify(n.to_bytes(1, sys.byteorder)).decode("ascii")
HexOfByte(n) == <<HexDigits[(n \div 16) + 1], HexDigits[(n % 16) + 1]>>

\* hex(color)
HexEncode(c) == <<"#">> \o HexOfByte(c.r) \o HexOfByte(c.g) \o HexOfByte(c.b)

UpperDigits == <<"0", "1", "2", "3", "4", "5", "6", "7", "8", "9", "A", "B", "C", "D", "E", "F">>

\* The value of a hex digit; int(s, 16) takes both cases
DigitValue(ch) == (CHOOSE i \in 1..16 : HexDigits[i] = ch \/ UpperDigits[i] = ch) - 1

\* int(s, 16) for a string of hex digits
RECURSIVE IntBase16(_)
IntBase16(s) ==
    IF s = <<>> THEN 0 ELSE 16 * IntBase16(SubSeq(s, 1, Len(s) - 1)) + DigitValue(s[Len(s)])

\* code[1:] if code.startswith("#")
Unprefixed(code) == IF code /= <<>> /\ code[1] = "#" THEN Tail(code) ELSE code

\* The slice s[i:j] of Python, 0-based, cut at the end of s
PySlice(s, i, j) == SubSeq(s, i + 1, IF j <= Len(s) THEN j ELSE Len(s))

\* hex(code, alpha=alpha) for a code of three or six hex digits
HexDecodeDigits(code, alpha) ==
    IF Len(code) = 3
    THEN Color(IntBase16(<<code[1], code[1]>>), IntBase16(<<code[2], code[2]>>),
               IntBase16(<<code[3], code[3]>>), alpha)
    ELSE Color(IntBase16(PySlice(code, 0, 2)), IntBase16(PySlice(code, 2, 4)),
               IntBase16(PySlice(code, 4, 6)), alpha)

HexDecode(code, alpha) == HexDecodeDigits(Unprefixed(code), alpha)

\* rgb(color): the channels as fractions of 255
RgbOf(c) == <<FloatDiv(c.r, MaxChannel), FloatDiv(c.g, MaxChannel), FloatDiv(c.b, MaxChannel)>>

\* rgb(r, g, b): Color(int(r * 255), int(g * 255), int(b * 255)), alpha 1.0
RgbColor(v) ==
    Color(Trunc(FloatMul(v[1], MaxChannel)), Trunc(FloatMul(v[2], MaxChannel)),
          Trunc(FloatMul(v[3], MaxChannel)), DefaultAlpha)

\* s + (e - s) * percent for doubles s, e in 0..1 and 0 <= percent <= 1:
\* when e < s the difference and the product are negative, of the
\* magnitudes of (s - e) and (s - e) * percent
Mix(s, e, percent) ==
    IF FloatLess(e, s) THEN FloatSub(s, FloatTimes(FloatSub(s, e), percent))
    ELSE FloatAdd(s, FloatTimes(FloatSub(e, s), percent))

\* self.towards(other, percent, space="rgb")
Towards(self, other, percent) ==
    RgbColor([i \in 1..3 |-> Mix(RgbOf(self)[i], RgbOf(other)[i], percent)])

(***************************************************************************)
(* The end-to-end scenario (SpecScenario): a script selects styles, calls  *)
(* padding() and background() on them and renders the sheet.  script is    *)
(* the calls made so far.                                                  *)
(***************************************************************************)
MaxScenarioOps == 4

\* Style.background(color): rule() writes str(color)
StyleBackground(h, self, color) ==
    StyleRule(h, self, "background-color", StrValue(ColorStr(color)))

ScenarioSelectors == {<<".", "b", "t", "n">>, <<"a">>}

ScenarioSizes == <<IntValue(10), IntValue(0), FloatValue(FloatDiv(1, 2))>>

ScenarioCodes == {<<"#", "f", "f", "0", "0", "0", "0">>, <<"0", "0", "f">>}

\* The colors of the script: hex(code), hex(code, alpha=1) and Color(1, 2, 3)
ScenarioColors ==
    {HexDecode(code, DefaultAlpha) : code \in ScenarioCodes}
    \cup {HexDecode(code, IntValue(1)) : code \in ScenarioCodes}
    \cup {Color(1, 2, 3, None)}

Scripted(op, arg) == script' = Append(script, [op |-> op, arg |-> arg])

scenarioRest == <<animations, counter, selIn, selOut, run, pos, out1, selectors, dicts, input>>

InitScenario == Init

\* sheet.select(selector)
ScenarioSelect ==
    /\ nops < MaxScenarioOps
    /\ \E s \in ScenarioSelectors : Select(s) /\ Scripted("select", s)
    /\ UNCHANGED <<scenarioRest, output>>

\* style.padding(all)
ScenarioPadding ==
    /\ nops < MaxScenarioOps
    /\ \E self \in 1..Len(styles), i \in 1..Len(ScenarioSizes) :
        /\ styles' = StylePadding(styles, self, ScenarioSizes[i],
                                  NotGiven, NotGiven, NotGiven, NotGiven)
        /\ Call("padding", self, ScenarioSizes[i], TRUE, self)
        /\ Scripted("padding", ScenarioSizes[i])
    /\ UNCHANGED <<sheet_styles, medias, _media, withStack, scenarioRest, output>>

\* style.background(color)
ScenarioBackground ==
    /\ nops < MaxScenarioOps
    /\ \E self \in 1..Len(styles), color \in ScenarioColors :
        /\ styles' = StyleBackground(styles, self, color)
        /\ Call("background", self, color, TRUE, self)
        /\ Scripted("background", color)
    /\ UNCHANGED <<sheet_styles, medias, _media, withStack, scenarioRest, output>>

\* sheet.render()
ScenarioRender ==
    /\ nops < MaxScenarioOps
    /\ last.op /= "render"
    /\ output' = [ok |-> TRUE, ret |-> <<Render>>]
    /\ Call("render", 0, <<>>, TRUE, 0)
    /\ Scripted("render", <<>>)
    /\ UNCHANGED <<styles, sheet_styles, medias, _media, withStack, scenarioRest>>

NextScenario == ScenarioSelect \/ ScenarioPadding \/ ScenarioBackground \/ ScenarioRender

SpecScenario == InitScenario /\ [][NextScenario]_vars

\* The script of the scenario: select(".btn"), padding(10),
\* background(hex("#ff0000")), render()
EndToEnd ==
    /\ Len(script) = 4
    /\ script[1] = [op |-> "select", arg |-> <<".", "b", "t", "n">>]
    /\ script[2] = [op |-> "padding", arg |-> IntValue(10)]
    /\ script[3] = [op |-> "background",
                    arg |-> HexDecode(<<"#", "f", "f", "0", "0", "0", "0">>, DefaultAlpha)]
    /\ script[4].op = "render"

\* C22: select(".btn"), padding(10), background(the color decoded from
\* "#ff0000") and render() produce exactly the block of .btn with padding:
\* 10px and background-color: rgba(255,0,0,1), in call order, indented by
\* four spaces.
C22_EndToEnd ==
    EndToEnd
        => output.ret
               = <<".btn {\n    padding: 10px;\n    background-color: rgba(255,0,0,1);\n}\n">>

(***************************************************************************)
(* Calls of hex() and Color.towards() (SpecColor).                         *)
(***************************************************************************)
ChannelSamples == {0, 1, 100, 255}

Alphas == {DefaultAlpha, FloatValue(FloatDiv(1, 2))}

Percents == {FromInt(0), FloatDiv(1, 2), FromInt(1)}

HexCodes ==
    {<<"#", "f", "f", "0", "0", "0", "0">>, <<"f", "0", "0">>, <<"#", "A", "b", "C">>,
     <<"0", "a", "0", "B", "0", "c">>}

HexInputs ==
    {[op |-> "hex", color |-> Color(r, g, b, a)] :
        r \in 0..MaxChannel, g \in {0, 171}, b \in {10, 255}, a \in Alphas}

DecodeInputs == {[op |-> "decode", code |-> code, alpha |-> a] : code \in HexCodes, a \in Alphas}

TowardsInputs ==
    {[op |-> "towards", self |-> Color(s, 100, 200, FloatValue(FloatDiv(1, 2))),
      other |-> Color(e, 99, 201, DefaultAlpha), percent |-> p] :
        s \in ChannelSamples, e \in 0..MaxChannel, p \in Percents}

InitColor ==
    /\ InitSheet
    /\ InitSel
    /\ InitDet
    /\ InitObj
    /\ \/ input \in HexInputs
       \/ input \in DecodeInputs
       \/ input \in TowardsInputs
    /\ output = NoOutput

Returned(op, ret) ==
    /\ last.op = ""
    /\ input.op = op
    /\ output' = [ok |-> TRUE, ret |-> ret]
    /\ last' = [NoCall EXCEPT !.op = op]
    /\ UNCHANGED <<styles, animations, counter, sheet_styles, medias, _media,
                   withStack, nops, selVars, detVars, objVars, input>>

\* code = hex(color); back = hex(code)
HexRoundTrip ==
    Returned("hex", <<HexEncode(input.color), HexDecode(HexEncode(input.color), DefaultAlpha)>>)

\* hex(code, alpha=alpha)
HexDecodeCall == Returned("decode", <<HexDecode(input.code, input.alpha)>>)

\* self.towards(other, percent, space="rgb")
TowardsCall == Returned("towards", <<Towards(input.self, input.other, input.percent)>>)

NextColor == HexRoundTrip \/ HexDecodeCall \/ TowardsCall

SpecColor == InitColor /\ [][NextColor]_vars

\* The three channels of a color
Channels(c) == <<c.r, c.g, c.b>>

IsHexDigit(ch) == \E i \in 1..16 : HexDigits[i] = ch \/ UpperDigits[i] = ch

\* C23: for a color with r, g, b in 0..255, hex(color) is "#" and exactly
\* six hex digits, and decoding it gives back r, g and b with the default
\* alpha, whatever the alpha of the color was.
C23_HexRoundTrip ==
    last.op = "hex"
        => /\ Len(output.ret[1]) = 7
           /\ output.ret[1][1] = "#"
           /\ \A i \in 2..7 : IsHexDigit(output.ret[1][i])
           /\ Channels(output.ret[2]) = Channels(input.color)
           /\ output.ret[2].a = DefaultAlpha

\* hex(Color(10, 171, 255, alpha=0.5)) is "#0aabff", decoded with alpha 1.0
C23_Witness ==
    /\ last.op = "hex"
    /\ input.color = Color(10, 171, 255, FloatValue(FloatDiv(1, 2)))
    /\ output.ret[1] = <<"#", "0", "a", "a", "b", "f", "f">>
    /\ output.ret[2] = Color(10, 171, 255, DefaultAlpha)

\* C24: in the rgb space, a.towards(b, 0.0) has the channel values of a
\* and a.towards(b, 1.0) has those of b.
C24_Endpoints ==
    last.op = "towards"
        => /\ input.percent = FromInt(0)
                 => Channels(output.ret[1]) = Channels(input.self)
           /\ input.percent = FromInt(1)
                 => Channels(output.ret[1]) = Channels(input.other)

(***************************************************************************)
(* app.py: App.style, App._register_document_styles and the routes of the  *)
(* web framework (SpecApp).  output is the App: routes are the GET routes  *)
(* registered so far, each with the path its handler closed over;          *)
(* served_styles maps a path to a sheet; response is the last answer.  A   *)
(* path is the sequence of its characters, a sheet is known by a number.   *)
(***************************************************************************)
MaxAppOps == 3
MaxSheets == 2

\* App.__init__, as far as style sheets go
NewApp == [routes |-> <<>>, served_styles |-> <<>>, response |-> <<>>]

\* path if path.startswith("/") else f"/{path}"
WithSlash(path) == IF path /= <<>> /\ path[1] = "/" THEN path ELSE <<"/">> \o path

\* App.style(path, sheet)
AppStyle(app, path, sheet) ==
    IF HasKey(app.served_styles, path)
    THEN [app EXCEPT !.served_styles = DictSet(@, path, sheet)]
    ELSE [app EXCEPT !.routes = Append(@, WithSlash(path)),
                     !.served_styles = DictSet(@, WithSlash(path), sheet)]

\* GET path: the first route registered for the path answers, with
\* self.served_styles[path].render() for the path it closed over
AppGet(app, path) ==
    IF \E i \in 1..Len(app.routes) : app.routes[i] = path
    THEN [app EXCEPT !.response = <<DictGet(app.served_styles, path)>>]
    ELSE [app EXCEPT !.response = <<404>>]

AppPaths == {<<"a">>, <<"/", "a">>, <<"b">>, <<"/", "b">>}

InitApp ==
    /\ InitSheet
    /\ InitSel
    /\ InitDet
    /\ InitObj
    /\ input = <<>>
    /\ output = NewApp

AppCalled(op, path, sheet) ==
    /\ nops < MaxAppOps
    /\ nops' = nops + 1
    /\ last' = [NoCall EXCEPT !.op = op]
    /\ script' = Append(script, [op |-> op, path |-> path, sheet |-> sheet])
    /\ UNCHANGED <<styles, animations, counter, sheet_styles, medias, _media,
                   withStack, selVars, run, pos, out1, objVars, input>>

\* app.style(path, sheet)
StyleCall ==
    \E path \in AppPaths, sheet \in 1..MaxSheets :
        /\ output' = AppStyle(output, path, sheet)
        /\ AppCalled("style", path, sheet)

\* A request to a view whose Document links a sheet by href:
\* _register_document_styles calls self.style(resource.href, resource.sheet)
DocumentCall ==
    \E href \in AppPaths, sheet \in 1..MaxSheets :
        /\ output' = AppStyle(output, href, sheet)
        /\ AppCalled("document", href, sheet)

\* A request for a style sheet
GetCall ==
    \E path \in {WithSlash(p) : p \in AppPaths} :
        /\ output' = AppGet(output, path)
        /\ AppCalled("get", path, 0)

NextApp == StyleCall \/ DocumentCall \/ GetCall

SpecApp == InitApp /\ [][NextApp]_vars

\* The calls of the script that set the sheet of path
SetsOf(path) ==
    {i \in 1..Len(script) : script[i].op /= "get" /\ WithSlash(script[i].path) = path}

LatestOf(path) == CHOOSE i \in SetsOf(path) : \A j \in SetsOf(path) : j <= i

RoutesOf(path) == {i \in 1..Len(output.routes) : output.routes[i] = path}

\* A request is answered with the sheet of the latest call for its path
LatestServed ==
    (last.op = "get" /\ SetsOf(script[Len(script)].path) /= {})
        => output.response = <<script[LatestOf(script[Len(script)].path)].sheet>>

\* C25: after any sequence of style() calls a route is registered exactly
\* once for each served path, with or without a leading "/" in the calls,
\* and a request to the path is answered with the sheet of the latest call
\* for it.
C25_OneRoute ==
    /\ \A path \in {WithSlash(p) : p \in AppPaths} :
           Cardinality(RoutesOf(path)) = (IF SetsOf(path) = {} THEN 0 ELSE 1)
    /\ LatestServed

(***************************************************************************)
(* Several transition() calls on the styles of a script (SpecTransition),  *)
(* among rule() calls, some of which write a transition-* attribute.       *)
(***************************************************************************)
MaxTransitionOps == 2

TransitionArg(property, duration, timing, delay) ==
    [property |-> property, duration |-> duration, timing |-> timing, delay |-> delay]

\* The arguments of the transition() calls of the script
TransitionArgs ==
    << TransitionArg(NotGiven, NotGiven, NotGiven, NotGiven),
       TransitionArg(StrValue("background-color"), NotGiven, NotGiven, NotGiven),
       TransitionArg(StrValue("color"), IntValue(300), NotGiven, NotGiven),
       TransitionArg(StrValue("transform"), IntValue(150), StrValue("ease-in-out"),
                     IntValue(150)),
       TransitionArg(StrValue("opacity"), FloatValue(FloatDiv(1, 2)), StrValue("ease"),
                     FloatValue(FromInt(2))) >>

WrittenAttrs == {"color", "transition-delay"}

InitTransition ==
    /\ styles = <<Style(<<>>), Style(<<>>)>>
    /\ animations = <<>>
    /\ counter = 0
    /\ sheet_styles = <<>>
    /\ medias = <<>>
    /\ _media = 0
    /\ withStack = <<>>
    /\ last = NoCall
    /\ nops = 0
    /\ InitSel
    /\ InitDet
    /\ InitObj
    /\ InitFun

TransitionCalled(op, self, arg) ==
    /\ nops < MaxTransitionOps
    /\ nops' = nops + 1
    /\ last' = [NoCall EXCEPT !.op = op, !.self = self]
    /\ script' = Append(script, [op |-> op, self |-> self, arg |-> arg])
    /\ UNCHANGED <<animations, counter, sheet_styles, medias, _media, withStack,
                   selVars, run, pos, out1, objVars, funVars>>

\* style.transition(property, duration, timing, delay)
TransitionCall ==
    \E self \in 1..Len(styles), i \in 1..Len(TransitionArgs) :
        /\ styles' = StyleTransition(styles, self, TransitionArgs[i].property,
                                     TransitionArgs[i].duration, TransitionArgs[i].timing,
                                     TransitionArgs[i].delay)
        /\ TransitionCalled("transition", self, TransitionArgs[i])

\* style.rule(attr, "1s")
TransitionRuleCall ==
    \E self \in 1..Len(styles), attr \in WrittenAttrs :
        /\ styles' = StyleRule(styles, self, attr, StrValue("1s"))
        /\ TransitionCalled("rule", self, attr)

NextTransition == TransitionCall \/ TransitionRuleCall

SpecTransition == InitTransition /\ [][NextTransition]_vars

\* The transition() calls made on a style so far, in order
TransitionsOn(self) ==
    SelectSeq(script, LAMBDA c : c.op = "transition" /\ c.self = self)

\* No rule() call wrote a transition-* attribute of the style
NoDirectWrite(self) ==
    \A i \in 1..Len(script) :
        ~(script[i].op = "rule" /\ script[i].self = self
          /\ script[i].arg = "transition-delay")

\* A duration or delay as the claim has it: an int in ms, a float in s
TimeEntry(x, default) ==
    IF x.type = "missing" THEN default
    ELSE IF x.type = "int" THEN ToString(x.value) \o "ms"
    ELSE NumStr(PyRound(x, 2)) \o "s"

WordEntry(x, default) == IF x.type = "missing" THEN default ELSE x.value

\* The entries the calls give to each of the four declarations
PropertyEntries(calls) == [i \in 1..Len(calls) |-> WordEntry(calls[i].arg.property, "all")]

DurationEntries(calls) == [i \in 1..Len(calls) |-> TimeEntry(calls[i].arg.duration, "150ms")]

TimingEntries(calls) == [i \in 1..Len(calls) |-> WordEntry(calls[i].arg.timing, "linear")]

DelayEntries(calls) == [i \in 1..Len(calls) |-> TimeEntry(calls[i].arg.delay, "0ms")]

Declared(self, attr, entries) ==
    /\ HasKey(styles[self]._rules, attr)
    /\ DictGet(styles[self]._rules, attr) = JoinWith(entries, ", ")

\* C26: after n >= 1 calls of transition() on a style, and no direct write
\* of a transition-* attribute, each of transition-property,
\* transition-duration, transition-timing-function and transition-delay
\* lists n entries separated by commas, the i-th from the i-th call, with
\* int durations and delays in ms and float ones in s.
C26_Transitions ==
    \A self \in 1..Len(styles) :
        (NoDirectWrite(self) /\ TransitionsOn(self) /= <<>>)
            => /\ Declared(self, "transition-property", PropertyEntries(TransitionsOn(self)))
               /\ Declared(self, "transition-duration", DurationEntries(TransitionsOn(self)))
               /\ Declared(self, "transition-timing-function",
                           TimingEntries(TransitionsOn(self)))
               /\ Declared(self, "transition-delay", DelayEntries(TransitionsOn(self)))

\* Two transitions on one style: transition("color", 300) and then
\* transition("opacity", 0.5, "ease", 2.0)
C26_Witness ==
    /\ Len(TransitionsOn(1)) = 2
    /\ NoDirectWrite(1)
    /\ DictGet(styles[1]._rules, "transition-property") = "color, opacity"
    /\ DictGet(styles[1]._rules, "transition-duration") = "300ms, 0.5s"
    /\ DictGet(styles[1]._rules, "transition-timing-function") = "linear, ease"
    /\ DictGet(styles[1]._rules, "transition-delay") = "0ms, 2.0s"

\* C27: a grid() call that fails because neither columns nor rows is given
\* leaves the declarations of the style as they were before the call; in
\* particular it writes no display declaration.
C27_GridUntouched ==
    [][(nops' = nops + 1 /\ last'.op = "grid" /\ ~last'.ok)
           => styles'[last'.self]._rules = styles[last'.self]._rules]_vars

(***************************************************************************)
(* Style.children with its default selector (SpecStyle).                   *)
(***************************************************************************)
\* The default of Style.children, Selector.children and Selector.parse
DefaultSelector == <<"*">>

\* C28: a children call with the default selector "*" on a style that has a
\* selector succeeds, and the sub-style it returns is serialized as the
\* receiver's selector followed by ">*".
C28_DefaultChildren ==
    (/\ last.op = "children"
     /\ last.arg[1] = DefaultSelector
     /\ last.arg[2] = 0
     /\ styles[last.self].selector /= <<>>)
        => /\ last.ok
           /\ CssOf(last.ret) = CssOf(last.self) \o <<">">> \o DefaultSelector

(***************************************************************************)
(* SpecSocket: the SocketManager of an App, the websocket endpoints that   *)
(* serve its clients, and the broadcast and invoke calls in flight.  The   *)
(* tasks run on one event loop: a step of the model is what one task does  *)
(* between two awaits that suspend it.  output holds                        *)
(*   active_connections  the dict of the SocketManager, client_id to the   *)
(*                       websocket (its index in sockets),                  *)
(*   sockets             the websockets the clients have opened: the       *)
(*                       client_id, whether the client still has it open,  *)
(*                       and where its endpoint is: "connect" before       *)
(*                       accept() has returned, "loop" in the receive      *)
(*                       loop, "done" when the endpoint has returned,      *)
(*   tasks               the broadcast and invoke calls in flight, each    *)
(*                       the (client_id, connection) pairs it has yet to   *)
(*                       send to.                                           *)
(***************************************************************************)
MaxSockets == 2
MaxTasks == 1

Clients == {"a", "b"}

\* SocketManager.__init__
NewManager == [active_connections |-> <<>>, sockets |-> <<>>, tasks |-> <<>>]

\* d.pop(k) for a key d has
DictPop(d, k) == SelectSeq(d, LAMBDA e : e[1] /= k)

\* SocketManager.disconnect(client_id): pop has no default, so a client_id
\* that is not in the dict is a KeyError.
Disconnect(m, client_id) ==
    IF HasKey(m.active_connections, client_id)
    THEN [ok |-> TRUE,
          m |-> [m EXCEPT !.active_connections = DictPop(@, client_id)]]
    ELSE [ok |-> FALSE, m |-> m]

\* SocketManager.connect(client_id, websocket), once accept() has returned
Connect(m, client_id, websocket) ==
    [m EXCEPT !.active_connections = DictSet(@, client_id, websocket)]

\* The sequence s without its element at i
Without(s, i) == SubSeq(s, 1, i - 1) \o SubSeq(s, i + 1, Len(s))

\* Task t has sent to the head of its pairs: it goes on with the others,
\* and returns when there is none.
Sent(m, t) ==
    IF Len(m.tasks[t]) = 1
    THEN [m EXCEPT !.tasks = Without(@, t)]
    ELSE [m EXCEPT !.tasks[t] = Tail(@)]

\* Task t is ended by an exception
Raised(m, t) == [m EXCEPT !.tasks = Without(@, t)]

InitSocket ==
    /\ InitSheet
    /\ InitSel
    /\ InitDet
    /\ InitObj
    /\ input = <<>>
    /\ output = NewManager

socketRest == <<styles, animations, counter, sheet_styles, medias, _media,
                withStack, nops, selVars, run, pos, out1, objVars, input, script>>

SocketStep(op, websocket, client_id, caller, ok) ==
    /\ last' = [op |-> op, self |-> websocket, arg |-> <<client_id, caller>>,
                ok |-> ok, ret |-> 0]
    /\ UNCHANGED socketRest

\* The sockets of a client
SocketsOf(m, client_id) ==
    {s \in 1..Len(m.sockets) : m.sockets[s].client = client_id}

\* setup_socket_listener: the page opens a websocket under its client_id.
\* It opens the next one from on_close of the one before.
WebSocketOpen ==
    \E c \in Clients :
        /\ Len(output.sockets) < MaxSockets
        /\ \A s \in SocketsOf(output, c) : ~output.sockets[s].open
        /\ output' = [output EXCEPT !.sockets =
                          Append(@, [client |-> c, open |-> TRUE, pc |-> "connect"])]
        /\ SocketStep("open", Len(output.sockets) + 1, c, "", TRUE)

\* The client closes or loses its websocket
WebSocketClose ==
    \E s \in 1..Len(output.sockets) :
        /\ output.sockets[s].open
        /\ output' = [output EXCEPT !.sockets[s].open = FALSE]
        /\ SocketStep("close", s, output.sockets[s].client, "", TRUE)

\* websocket_endpoint up to its first receive_text: accept() returns and
\* connect stores the websocket.  On a websocket the client has closed
\* accept() may raise instead, which ends the endpoint.
EndpointConnect ==
    \E s \in 1..Len(output.sockets) :
        /\ output.sockets[s].pc = "connect"
        /\ \E accepted \in (IF output.sockets[s].open THEN {TRUE} ELSE BOOLEAN) :
              /\ output' =
                    IF accepted
                    THEN [Connect(output, output.sockets[s].client, s)
                              EXCEPT !.sockets[s].pc = "loop"]
                    ELSE [output EXCEPT !.sockets[s].pc = "done"]
              /\ SocketStep("connect", s, output.sockets[s].client, "", accepted)

\* websocket_endpoint: receive_text raises WebSocketDisconnect on a
\* websocket the client has closed, and the handler calls disconnect.
EndpointReceive ==
    \E s \in 1..Len(output.sockets) :
        /\ output.sockets[s].pc = "loop"
        /\ ~output.sockets[s].open
        /\ output' = [Disconnect(output, output.sockets[s].client).m
                          EXCEPT !.sockets[s].pc = "done"]
        /\ SocketStep("disconnect", s, output.sockets[s].client, "receive",
                      Disconnect(output, output.sockets[s].client).ok)

\* SocketManager.broadcast up to its first send_text: it copies the items
\* of the dict.
BroadcastCall ==
    /\ Len(output.tasks) < MaxTasks
    /\ output.active_connections /= <<>>
    /\ output' = [output EXCEPT !.tasks = Append(@, output.active_connections)]
    /\ SocketStep("broadcast", 0, "", "", TRUE)

\* SocketManager.invoke up to its send_text: KeyError for a client_id that
\* is not connected, else it reads the connection.
InvokeCall ==
    \E c \in Clients :
        /\ Len(output.tasks) < MaxTasks
        /\ IF HasKey(output.active_connections, c)
           THEN output' = [output EXCEPT !.tasks =
                    Append(@, << <<c, DictGet(output.active_connections, c)>> >>)]
           ELSE UNCHANGED output
        /\ SocketStep("invoke", 0, c, "", HasKey(output.active_connections, c))

\* A send_text of broadcast or invoke returns.  On a websocket the client
\* has closed it may raise, and the handler calls disconnect; a KeyError
\* of disconnect ends the task.
SendText ==
    \E t \in 1..Len(output.tasks) :
        LET client_id  == output.tasks[t][1][1]
            connection == output.tasks[t][1][2]
        IN  \E sent \in (IF output.sockets[connection].open THEN {TRUE} ELSE BOOLEAN) :
               IF sent
               THEN /\ output' = Sent(output, t)
                    /\ SocketStep("send_text", connection, client_id, "", TRUE)
               ELSE /\ output' = IF Disconnect(output, client_id).ok
                                 THEN Sent(Disconnect(output, client_id).m, t)
                                 ELSE Raised(output, t)
                    /\ SocketStep("disconnect", connection, client_id, "send",
                                  Disconnect(output, client_id).ok)

NextSocket ==
    \/ WebSocketOpen
    \/ WebSocketClose
    \/ EndpointConnect
    \/ EndpointReceive
    \/ BroadcastCall
    \/ InvokeCall
    \/ SendText

SpecSocket == InitSocket /\ [][NextSocket]_vars

\* C29: a call of SocketManager.disconnect returns without raising, from
\* the receive loop of an endpoint as from a failed send of broadcast or
\* invoke, whatever the other tasks did before.
C29_DisconnectQuiet == last.op = "disconnect" => last.ok

\* The websocket a client opened last
LatestSocket(m, client_id) ==
    CHOOSE s \in SocketsOf(m, client_id) : \A r \in SocketsOf(m, client_id) : r <= s

\* C30: a client whose latest websocket is open and whose endpoint is in
\* its receive loop (connect has returned) is in active_connections, mapped
\* to that websocket.
C30_LatestConnected ==
    \A c \in Clients :
        (/\ SocketsOf(output, c) /= {}
         /\ output.sockets[LatestSocket(output, c)].open
         /\ output.sockets[LatestSocket(output, c)].pc = "loop")
            => /\ HasKey(output.active_connections, c)
               /\ DictGet(output.active_connections, c) = LatestSocket(output, c)

====
